------------------------------- MODULE MCWeb -------------------------------
(***************************************************************************)
(* An instance for TLC: one client that does all there is to do, alone or  *)
(* beside one that asks the proxy for a page, and two workers.             *)
(***************************************************************************)
EXTENDS Web

CONSTANTS c1, c2, w1, w2

MCProcess == Clients \cup Workers \cup {"tiny", "cgi"}
MCFiles == {"page", "film", "locked", "empty", "cgi-bin/add"}
MCSize == [path \in {"page", "film", "locked", "empty", "cgi-bin/add"} |->
              CASE path = "film" -> 3 [] path = "empty" -> 0 [] OTHER -> 2]

Does(to, ask, sends, waits) ==
    [to |-> to, ask |-> ask, header |-> "host", sends |-> sends, waits |-> waits]
Page == Does("proxy", "page", 5, TRUE)
Absent == Does("nobody", "page", 0, FALSE)
Scene(first, second, faults) == [does |-> (c1 :> first @@ c2 :> second), faults |-> faults]

(* Alone: every reply, and every fault.                                     *)
Waiting == {Does(to, ask, 5, TRUE) :
               to \in {"proxy", "tiny"},
               ask \in {"page", "film", "gone", "locked", "empty", "noslash",
                        "cgi-bin/add", "post"}}
Leaving == {Does(to, ask, sends, FALSE) :
               to \in {"proxy", "tiny"}, ask \in {"film", "cgi-bin/add"}, sends \in {1, 2, 4, 5}}
Dropping == {[Does("proxy", "page", sends, sends = 5) EXCEPT !.header = "agent"] :
                 sends \in 3 .. 5}

(* With another client that wants a page from the proxy.                    *)
Others == {Page, Does("tiny", "cgi-bin/add", 5, TRUE), Does("proxy", "post", 5, TRUE),
           Does("proxy", "noslash", 5, TRUE),
           Does("proxy", "page", 4, FALSE), Does("tiny", "page", 4, FALSE),
           Does("tiny", "cgi-bin/add", 5, FALSE)}

MCScenarios ==
    {Scene(first, Absent, {}) : first \in Waiting \cup Leaving \cup Dropping}
        \cup {Scene(first, Absent, {fault}) :
                  first \in {Page, Does("proxy", "film", 5, TRUE)}, fault \in {"kill", "remove"}}
        \cup {Scene(first, Page, {}) : first \in Others}

(* Steps that nobody else sees go first, in one order of the processes: a   *)
(* pass over a buffer, and the next call of a loop that reads lines.        *)
Local(p) ==
    \/ Reading(p) /\ rio[p].cnt > 0
    \/ At(p, "request") /\ call[p].ret = "ok" /\ Data(p)[1] # <<"get", "noslash">>
    \/ At(p, "headers") /\ call[p].ret = "ok"
    \/ At(p, "reply") /\ call[p].ret = "ok" /\ Data(p) # <<NL>>
    \/ At(p, "send")
    \/ At(p, "sent") /\ p \in Clients /\ scenario.does[p].waits

Order == <<c1, c2, w1, w2, "tiny">>
Moves(p) == <<pc[p], call[p]>>' # <<pc[p], call[p]>>
LocalFirst ==
    \A n \in DOMAIN Order :
        (Local(Order[n]) /\ \A m \in 1 .. n - 1 : ~Local(Order[m])) => Moves(Order[n])
Constraint == LocalFirst /\ (pc[w1] = "idle" => pc'[w2] = "idle" \/ pc[w2] # "idle")
=============================================================================
