---------------------------- MODULE ProofService ----------------------------
(***************************************************************************)
(* What the proof sessions promise, without threads, queues and lists of   *)
(* sessions: each proof is run once and decided at most once, and whatever *)
(* clients do to it and to each other, what is put on record of it, and    *)
(* what a client is told, is what was decided.  A record may be lost, and  *)
(* come back, but never says anything else.                                *)
(***************************************************************************)
EXTENDS Naturals, Sequences

CONSTANTS Client, Proof

VARIABLES
  stage,    \* proof -> "none", "running" or "over"
  verdict,  \* proof -> "open", or how it was decided
  log,      \* the proofs on record, with their verdicts
  told      \* client -> the answer that tells it of the end of a proof

svars == <<stage, verdict, log, told>>

Untold == <<>>
Final(p) == <<p, verdict[p]>>

Start ==
  /\ stage = [p \in Proof |-> "none"]
  /\ verdict = [p \in Proof |-> "open"]
  /\ log = <<>>
  /\ told = [c \in Client |-> Untold]

Run(p) ==
  /\ stage[p] = "none"
  /\ stage' = [stage EXCEPT ![p] = "running"]
  /\ UNCHANGED <<verdict, log, told>>

Decide(p) ==
  /\ stage[p] = "running" /\ verdict[p] = "open"
  /\ \E v \in {"proved", "quit"} : verdict' = [verdict EXCEPT ![p] = v]
  /\ UNCHANGED <<stage, log, told>>

(* A proof whose session is killed may be over without a verdict.          *)
Stop(p) ==
  /\ stage[p] = "running"
  /\ stage' = [stage EXCEPT ![p] = "over"]
  /\ UNCHANGED <<verdict, log, told>>

Decided == {p \in Proof : verdict[p] # "open"}
Record(p) == /\ p \in Decided
             /\ log' # <<>> /\ log'[1] = Final(p)
             /\ \A i \in 1..Len(log') : log'[i] \in {Final(q) : q \in Decided}

RecordFirst(p) ==
  /\ Record(p)
  /\ UNCHANGED <<stage, verdict, told>>

(* A client that is told of the end of a proof can rely on it: the proof   *)
(* is over, and decided as it is told.                                     *)
Tell(c, p) ==
  /\ stage[p] = "over" /\ p \in Decided
  /\ Record(p) \/ UNCHANGED log
  /\ told' = [told EXCEPT ![c] = Final(p)]
  /\ UNCHANGED <<stage, verdict>>

NextCall(c) ==
  /\ told' = [told EXCEPT ![c] = Untold]
  /\ UNCHANGED <<stage, verdict, log>>

Serve ==
  \/ \E p \in Proof : Run(p) \/ Decide(p) \/ Stop(p) \/ RecordFirst(p)
  \/ \E c \in Client : NextCall(c) \/ \E p \in Proof : Tell(c, p)

ServiceSpec == Start /\ [][Serve]_svars
=============================================================================
