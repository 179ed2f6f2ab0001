------------------------------ MODULE TypeMemo ------------------------------
(***************************************************************************)
(* What the DWARF type cache of libdrgn/dwarf_info_cache.c promises its    *)
(* clients, with no call stack, maps or handlers: one API call runs at a   *)
(* time; while it runs, DIEs are resolved, and a DIE resolved with a given *)
(* can_be_incomplete_array always resolves to the same qualified type; the *)
(* call returns, and an API call that succeeds returns what the same call  *)
(* returned whenever it succeeded before. DwarfTypeCache implements this  *)
(* specification under the mapping of MCDwarfTypeCache.                    *)
(***************************************************************************)
VARIABLES
    answered,   \* every [die, can, qt] a resolution has produced
    responses,  \* every [req, out] an API call has returned
    busy        \* an API call is running

vars == <<answered, responses, busy>>

\* No DIE has two answers for the same can_be_incomplete_array.
Agree(S) == \A a, b \in S : a.die = b.die /\ a.can = b.can => a.qt = b.qt

\* Successful answers to the same request are equal.
Repeatable(S) ==
    \A r, s \in S : r.req = s.req /\ r.out.err = "none" /\ s.out.err = "none"
                      => r.out = s.out

Init == answered = {} /\ responses = {} /\ busy = FALSE

\* The client makes a call.
Begin == ~busy /\ busy' = TRUE /\ UNCHANGED <<answered, responses>>

\* The running call resolves DIEs, in agreement with every earlier answer.
Resolve ==
    /\ busy /\ answered \subseteq answered' /\ Agree(answered')
    /\ UNCHANGED <<responses, busy>>

\* The running call returns, with a result that repeats earlier successes.
Reply ==
    /\ busy /\ busy' = FALSE
    /\ responses \subseteq responses' /\ Repeatable(responses')
    /\ UNCHANGED answered

Next == Begin \/ Resolve \/ Reply

SafetySpec == Init /\ [][Next]_vars

\* A running call returns.
Liveness == busy ~> ~busy

Spec == SafetySpec /\ Liveness

=============================================================================
