----------------------------- MODULE AuthGrant ------------------------------
(***************************************************************************)
(* What an authorization promises, without envelopes, cookies, keys,       *)
(* configurations, requests in progress or time.  An application asks for  *)
(* access; its user is offered the choice; codes are minted for those who  *)
(* approve; the application is told a code or a refusal, once its user had *)
(* the choice, at the place and with the state it named; a code is spent   *)
(* once, and only if some application was told it; and what the code is    *)
(* worth is delivered at most once, to an application that was told it.    *)
(* Any of these may never happen.                                          *)
(*                                                                         *)
(* That the code an application is told is the one minted for its own user *)
(* is not promised: it travels through the browser unprotected, and the    *)
(* answer is bound to the authorization by its state only.                 *)
(***************************************************************************)
EXTENDS Integers, Sequences

CONSTANTS Asks,     \* what an application may ask: [cid, ru, st]
          Refused   \* told instead of a code

VARIABLES
    asked,      \* the authorizations asked for, in order
    offered,    \* those offered to their user
    codes,      \* the codes minted: [flow, used, to]
    told        \* what applications were told: [flow, ru, st, code]

vars == <<asked, offered, codes, told>>

Ask(q) ==
    /\ asked' = Append(asked, q)
    /\ UNCHANGED <<offered, codes, told>>

Offer(f) ==
    /\ offered' = offered \cup {f}
    /\ UNCHANGED <<asked, codes, told>>

Approve(f) ==
    /\ f \in offered
    /\ codes' = Append(codes, [flow |-> f, used |-> FALSE, to |-> <<>>])
    /\ UNCHANGED <<asked, offered, told>>

\* The answer to authorization f: a code, or that the user refused.
Tell(f, c) ==
    /\ f \in offered
    /\ told' = told \cup {[flow |-> f, ru |-> asked[f].ru, st |-> asked[f].st,
                           code |-> c]}
    /\ UNCHANGED <<asked, offered, codes>>

Spend(c) ==
    /\ \E m \in told : m.code = c
    /\ ~codes[c].used
    /\ codes' = [codes EXCEPT ![c].used = TRUE]
    /\ UNCHANGED <<asked, offered, told>>

\* What code c is worth goes to the application of authorization f.
Deliver(c, f) ==
    /\ codes[c].used
    /\ codes[c].to = <<>>
    /\ \E m \in told : m.code = c /\ m.flow = f
    /\ codes' = [codes EXCEPT ![c].to = <<asked[f].cid>>]
    /\ UNCHANGED <<asked, offered, told>>

Init ==
    /\ asked = <<>>
    /\ offered = {}
    /\ codes = <<>>
    /\ told = {}

Next ==
    \/ \E q \in Asks : Ask(q)
    \/ \E f \in 1..Len(asked) :
           \/ Offer(f) \/ Approve(f)
           \/ \E c \in {Refused} \cup (1..Len(codes)) : Tell(f, c)
    \/ \E c \in 1..Len(codes) :
           Spend(c) \/ \E f \in 1..Len(asked) : Deliver(c, f)

Spec == Init /\ [][Next]_vars
=============================================================================
