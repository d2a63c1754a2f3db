----------------------------- MODULE AtomicWrite -----------------------------
(***************************************************************************)
(* What MSet and MDel of gen-cpp/Master_server.cpp promise about one write *)
(* on several slaves.  The master gives a verdict, the reply to its client;*)
(* a slave applies the write only after the verdict is "success" and undoes*)
(* it only after the verdict is "fail"; and the verdict is "success" only  *)
(* if every slave that was asked holds the write, not yet applied.         *)
(*                                                                         *)
(* The code does not promise that every slave applies a successful write:  *)
(* a slave may lose it, and the master may stop asking.                    *)
(***************************************************************************)
CONSTANTS Requests, Slaves

VARIABLES
    asked,      \* the slaves each request was sent to
    verdict,    \* "none", "success" or "fail"
    effect      \* "none", "tentative", "applied", "undone" or "lost"

vars == <<asked, verdict, effect>>

Init ==
    /\ asked = [r \in Requests |-> {}]
    /\ verdict = [r \in Requests |-> "none"]
    /\ effect = [r \in Requests |-> [s \in Slaves |-> "none"]]

Become(r, s, from, to) ==
    /\ effect[r][s] = from
    /\ effect' = [effect EXCEPT ![r][s] = to]

Ask(r, s) ==
    /\ verdict[r] = "none"
    /\ asked' = [asked EXCEPT ![r] = @ \cup {s}]
    /\ UNCHANGED <<verdict, effect>>

\* A slave executes the write and keeps the transaction open.  It may do so
\* after the master has given up on it.
Execute(r, s) ==
    /\ s \in asked[r]
    /\ verdict[r] # "success"
    /\ Become(r, s, "none", "tentative")
    /\ UNCHANGED <<asked, verdict>>

Judge(r, v) ==
    /\ verdict[r] = "none"
    /\ v = "success" => \A s \in asked[r] : effect[r][s] \in {"tentative", "lost"}
    /\ verdict' = [verdict EXCEPT ![r] = v]
    /\ UNCHANGED <<asked, effect>>

Apply(r, s) ==
    /\ verdict[r] = "success"
    /\ Become(r, s, "tentative", "applied")
    /\ UNCHANGED <<asked, verdict>>

Undo(r, s) ==
    /\ verdict[r] = "fail"
    /\ Become(r, s, "tentative", "undone")
    /\ UNCHANGED <<asked, verdict>>

\* The slave's database drops an open transaction: crash, closed connection.
Lose(r, s) ==
    /\ Become(r, s, "tentative", "lost")
    /\ UNCHANGED <<asked, verdict>>

Next ==
    \E r \in Requests :
        \/ \E v \in {"success", "fail"} : Judge(r, v)
        \/ \E s \in Slaves :
              Ask(r, s) \/ Execute(r, s) \/ Apply(r, s) \/ Undo(r, s) \/ Lose(r, s)

Spec == Init /\ [][Next]_vars
=============================================================================
