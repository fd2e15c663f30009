--------------------------- MODULE MCProofSession ---------------------------
(***************************************************************************)
(* ProofSession for TLC: c1 starts proofs.  Either c2 interrupts and quits *)
(* the one proof c1 has begun, or c1 has two and quits them itself.        *)
(***************************************************************************)
EXTENDS ProofSession

CONSTANTS c1, c2, s1, s2
MCClients == {c1, c2}
MCSessions == {s1, s2}

Begun(s) == thread[s].at # "none" \/ \E c \in Clients : client[c].sess = s
Asked == \E s \in Sessions : session[s].asked > 0
Alone == client[c2] = Idle /\ ~Asked

\* The bounds: with s2, or a quit-all by c1, c2 is idle; c1 makes no steps
\* when it has two sessions, and one at most before.
Bounded == /\ Begun(s2) => /\ Begun(s1) /\ Alone
                           /\ client[c1].op # "step"
                           /\ client[c1].op = "init" => session[s1].calls < 2
           /\ client[c1].op = "quit" => Alone

MCSpec == /\ Init /\ [][Next /\ Bounded']_vars
          /\ \A s \in Sessions : WF_vars(ThreadStep(s))
          /\ \A c \in Clients : WF_vars(ClientStep(c)) /\ WF_vars(Timeout(c))
=============================================================================
