------------------------------ MODULE Envelope ------------------------------
(***************************************************************************)
(* The sealed envelopes of internal/seal: "kid.payload.mac" tokens that    *)
(* carry all the state of an authorization, because the proxy keeps none.  *)
(*                                                                         *)
(* Cryptography is symbolic: an envelope shows in clear its key id and its *)
(* payload, and its MAC is the pair of the key material and the domain it  *)
(* was computed under, so it verifies exactly under the same pair.         *)
(*                                                                         *)
(* Instants and durations are counted in ticks, Second of them to a second *)
(* of the wall clock.  The issue time travels as whole unix seconds        *)
(* (time.Time.Unix), while the windows are measured from the full instant: *)
(* an age is over-estimated by up to one second.                           *)
(***************************************************************************)
EXTENDS Integers, Sequences

CONSTANTS
    KIDs,        \* key ids
    Materials,   \* key material, one value per distinct HMAC key
    Second,      \* ticks per second
    Skew,        \* maxClockSkew, in ticks
    Garbage      \* any string that is not an envelope: absent, cut, mangled

ASSUME ClockAssumption == /\ Second \in Nat \ {0}
                          /\ Skew \in Nat

DomainState == "sapstate.v1"
DomainCode  == "sapcode.v1"
Domains     == {DomainState, DomainCode}

Key == [kid : KIDs, mat : Materials]

(***************************************************************************)
(* A ring is newest first.  config.validate lets through only rings that   *)
(* hold a key and list no key id twice.                                    *)
(***************************************************************************)
ValidRing(ring) ==
    /\ ring \in Seq(Key)
    /\ Len(ring) > 0
    /\ \A i, j \in 1..Len(ring) : ring[i].kid = ring[j].kid => i = j

EnvelopeOf(Bodies) ==
    [kid : KIDs, mac : [mat : Materials, domain : Domains], body : Bodies]

Unix(t) == t \div Second

\* Fault: the oldest key signs.
Seal_Oldest(ring, domain, body) ==
    [kid  |-> ring[Len(ring)].kid,
     mac  |-> [mat |-> ring[Len(ring)].mat, domain |-> domain],
     body |-> body]

\* Ring.Seal: the newest key signs.
Seal(ring, domain, body) ==
    [kid  |-> ring[1].kid,
     mac  |-> [mat |-> ring[1].mat, domain |-> domain],
     body |-> body]

\* Fault: only the signing key verifies.
Listed_SigningKeyOnly(ring, kid) == {i \in {1} : ring[i].kid = kid}

Listed(ring, kid) == {i \in 1..Len(ring) : ring[i].kid = kid}

\* Ring.key: the first entry with that id.
MaterialOf(ring, kid) ==
    ring[CHOOSE i \in Listed(ring, kid) :
             \A j \in Listed(ring, kid) : i <= j].mat

Authentic(ring, domain, e) ==
    /\ Listed(ring, e.kid) # {}
    /\ e.mac = [mat |-> MaterialOf(ring, e.kid), domain |-> domain]

\* Fault: no tolerance between clocks.
Future_NoSkew(e, now) == e.body.iat * Second > now

\* The issue-time window, on the whole-second iat of the payload.
Future(e, now)     == e.body.iat * Second - now > Skew
Stale(e, ttl, now) == ttl > 0 /\ now - e.body.iat * Second > ttl

(***************************************************************************)
(* Ring.Open: the error it returns, or "ok".  The order of the checks is   *)
(* the code's: nothing of the body is read before the MAC has passed.      *)
(***************************************************************************)
Open(ring, domain, e, ttl, now) ==
    IF      Len(ring) = 0                THEN "empty_ring"
    ELSE IF e = Garbage                  THEN "malformed"
    ELSE IF Listed(ring, e.kid) = {}     THEN "unknown_kid"
    ELSE IF ~Authentic(ring, domain, e)  THEN "bad_mac"
    ELSE IF Future(e, now)               THEN "future"
    ELSE IF Stale(e, ttl, now)           THEN "expired"
    ELSE "ok"
=============================================================================
