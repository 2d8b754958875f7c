--------------------------- MODULE EnvelopeProofs ---------------------------
(***************************************************************************)
(* What the envelopes guarantee, for every ring, payload and instant.      *)
(***************************************************************************)
EXTENDS Envelope, TLAPS

(***************************************************************************)
(* The whole seconds of an instant: at most one second short of it         *)
(* (time.Time.Unix, as the handlers use it for iat).                       *)
(***************************************************************************)
LEMMA UnixBounds ==
    ASSUME NEW t \in Nat
    PROVE  /\ Unix(t) \in Nat
           /\ Unix(t) * Second <= t
           /\ t < Unix(t) * Second + Second
  BY ClockAssumption DEF Unix

(***************************************************************************)
(* In a ring that names no key twice, the key found under an id is the one *)
(* listed with it (Ring.key).                                              *)
(***************************************************************************)
LEMMA MaterialListed ==
    ASSUME NEW ring, ValidRing(ring), NEW i \in 1..Len(ring)
    PROVE  /\ Listed(ring, ring[i].kid) = {i}
           /\ MaterialOf(ring, ring[i].kid) = ring[i].mat
  <1>1. Listed(ring, ring[i].kid) = {i}
    BY DEF Listed, ValidRing
  <1>2. (CHOOSE j \in {i} : \A k \in {i} : j <= k) = i
    <2>1. i <= i
      BY DEF ValidRing
    <2>2. \E j \in {i} : \A k \in {i} : j <= k
      BY <2>1
    <2> QED
      BY <2>2
  <1> QED
    BY <1>1, <1>2 DEF MaterialOf

(***************************************************************************)
(* What opens is authentic: some key of the ring signed it, for that very  *)
(* domain, and it is neither future-dated nor stale (Ring.Open).           *)
(***************************************************************************)
THEOREM OpenSound ==
    ASSUME NEW ring, NEW domain, NEW e, NEW ttl, NEW now,
           Open(ring, domain, e, ttl, now) = "ok"
    PROVE  /\ e # Garbage
           /\ e.mac.domain = domain
           /\ Authentic(ring, domain, e)
           /\ ~Future(e, now) /\ ~Stale(e, ttl, now)
  BY DEF Open, Authentic

(***************************************************************************)
(* An envelope sealed for one purpose never opens for the other, whatever  *)
(* the rings: a state is no code and a code is no state (seal.go:9-12).    *)
(***************************************************************************)
THEOREM DomainSeparation ==
    ASSUME NEW ring1, NEW ring2, NEW body, NEW ttl, NEW now
    PROVE  /\ Open(ring2, DomainCode, Seal(ring1, DomainState, body), ttl, now) # "ok"
           /\ Open(ring2, DomainState, Seal(ring1, DomainCode, body), ttl, now) # "ok"
  <1>1. DomainState # DomainCode
    BY DEF DomainState, DomainCode
  <1>2. ASSUME NEW d1, NEW d2, d1 # d2,
               Open(ring2, d2, Seal(ring1, d1, body), ttl, now) = "ok"
        PROVE  FALSE
    <2>1. Seal(ring1, d1, body).mac.domain = d2
      BY <1>2, OpenSound
    <2>2. Seal(ring1, d1, body).mac.domain = d1
      BY DEF Seal
    <2> QED
      BY <1>2, <2>1, <2>2
  <1> QED
    BY <1>1, <1>2

(***************************************************************************)
(* What was sealed opens again, under any later ring that still lists the  *)
(* key that signed it, on any clock that is not too far behind, up to one  *)
(* second short of the TTL: iat drops the fraction of a second, and so can *)
(* cost an envelope that much of its life, and never more.                 *)
(***************************************************************************)
THEOREM SealThenOpen ==
    ASSUME NEW ring1, ValidRing(ring1),
           NEW ring2, ValidRing(ring2),
           NEW i \in 1..Len(ring2), ring2[i] = ring1[1],
           NEW domain, NEW body,
           NEW t1 \in Nat, NEW t2 \in Nat, NEW ttl \in Nat,
           body.iat = Unix(t1),
           Seal(ring1, domain, body) # Garbage,
           t1 <= t2 + Skew,
           t2 - t1 <= ttl - (Second - 1)
    PROVE  Open(ring2, domain, Seal(ring1, domain, body), ttl, t2) = "ok"
  <1> DEFINE e == Seal(ring1, domain, body)
  <1>1. /\ e.kid = ring2[i].kid
        /\ e.mac = [mat |-> ring2[i].mat, domain |-> domain]
        /\ e.body = body
    BY DEF Seal
  <1>2. Len(ring2) # 0
    BY DEF ValidRing
  <1>3. Authentic(ring2, domain, e)
    <2>1. /\ Listed(ring2, ring2[i].kid) = {i}
          /\ MaterialOf(ring2, ring2[i].kid) = ring2[i].mat
      BY MaterialListed
    <2> HIDE DEF e
    <2> QED
      BY <1>1, <2>1 DEF Authentic
  <1>4. Listed(ring2, e.kid) # {}
    BY <1>3 DEF Authentic
  <1>5. /\ Unix(t1) \in Nat
        /\ Unix(t1) * Second <= t1
        /\ t1 < Unix(t1) * Second + Second
    BY UnixBounds
  <1>6. ~Future(e, t2)
    BY <1>1, <1>5, ClockAssumption DEF Future
  <1>7. ~Stale(e, ttl, t2)
    BY <1>1, <1>5, ClockAssumption DEF Stale
  <1>8. e # Garbage
    OBVIOUS
  <1>9. Open(ring2, domain, e, ttl, t2) = "ok"
    <2> HIDE DEF e
    <2> QED
      BY <1>2, <1>3, <1>4, <1>6, <1>7, <1>8, Zenon DEF Open
  <1> QED
    BY <1>9
=============================================================================
