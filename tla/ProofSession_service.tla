------------------------ MODULE ProofSession_service ------------------------
(***************************************************************************)
(* Proofs about what clients are told and what is put on record of proofs, *)
(* for any number of clients and sessions, where a session is stepped only *)
(* by the client that has made it: the record is true (RecordIsTrue), and  *)
(* the sessions implement ProofService.  Others may interrupt, quit and    *)
(* kill them, and updates of the two lists may be lost.                    *)
(***************************************************************************)
EXTENDS ProofSession_proofs

(***************************************************************************)
(* The invariant.  What prover-init returns is the goal it was shown only  *)
(* if no proof step comes between: nobody else knows the session's id, and *)
(* a rerun is over when the first goal is shown.                           *)
(***************************************************************************)

\* A session that prover-init is making is nobody's yet; a proof step is sent
\* by the client that has made the session.
Owns ==
  \A c \in Clients :
    /\ client[c].op = "init" =>
         \A d \in Clients :
           /\ client[c].sess \notin client[d].mine
           /\ d # c /\ client[d].op = "init" => client[d].sess # client[c].sess
    /\ client[c].at = "drain" /\ client[c].cmd = "step" =>
         client[c].sess \in client[c].mine

\* No proof step waits in the queue.
NoStepWaits(s) ==
  \A i \in 1 .. Len(session[s].input) : session[s].input[i] = "quit"

\* The goals that wait are those of now.
GoalsAreNow(s) ==
  \A i \in 1 .. Len(session[s].output) :
    session[s].output[i].steps = session[s].steps

Steps(s) == thread[s].at = "busy" /\ thread[s].cmd = "step"

Calm(s) == /\ NoStepWaits(s) /\ GoalsAreNow(s)
           /\ Steps(s) => session[s].output = << >>

\* prover-init, up to the status.
Makes(c) == /\ client[c].op = "init"
            /\ client[c].at \in {"push", "spawn", "name", "await", "status"}

Shows(c) == client[c].at = "status" =>
              /\ ~Steps(client[c].sess)
              /\ client[c].reply.steps = session[client[c].sess].steps

Started == /\ \A s \in Sessions : thread[s].at = "none" =>
                session[s].input = << >> /\ session[s].output = << >>
           /\ \A c \in Clients : Makes(c) => Calm(client[c].sess) /\ Shows(c)

\* The entries of q say how the proofs have ended in S.
HoldsIn(q, S) ==
  \A i \in 1 .. Len(q) : /\ q[i][2] # "open"
                         /\ q[i][2] = S[q[i][1]].flag

Truth ==
  /\ HoldsIn(doneSessions, session)
  /\ \A c \in Clients :
       /\ HoldsIn(client[c].log, session)
       /\ client[c].at \in {"join", "remove", "load", "record"} =>
            client[c].status = session[client[c].sess].flag

RInv == Owns /\ Started /\ Truth

\* The status of a proofstate that is not open is that of the root.
LEMMA EndIsFlag ==
  ASSUME TypeOK, Started, NEW c \in Clients, client[c].at = "status",
         NEW status \in StatusNow(c), status # "open"
  PROVE  status = session[client[c].sess].flag
  <1>1. CASE client[c].reply.head = "root"
    BY <1>1 DEF StatusNow
  <1>2. CASE client[c].reply.head # "root"
    <2>1. status \in ShownGoal(c)
      BY <1>2 DEF StatusNow
    <2>2. CASE client[c].op = "init"
      <3>1. client[c].reply.steps = session[client[c].sess].steps
        BY <2>2 DEF Started, Makes, Shows
      <3>2. session[client[c].sess].steps \in Nat
        BY DEF TypeOK, Session
      <3>3. ~(session[client[c].sess].steps > client[c].reply.steps)
        BY <3>1, <3>2
      <3> QED
        BY <2>1, <3>3 DEF ShownGoal
    <2>3. CASE client[c].op # "init"
      BY <2>1, <2>3 DEF ShownGoal
    <2> QED
      BY <2>2, <2>3
  <1> QED
    BY <1>1, <1>2

-----------------------------------------------------------------------------
(***************************************************************************)
(* The steps of a thread.                                                  *)
(***************************************************************************)

\* What the prover does to the queues of its session: it takes a command, or
\* it pushes an entry, or it carries out a proof step.
LEMMA ThreadTalks ==
  ASSUME TypeOK, NEW s \in Sessions, ThreadStep(s) \/ HandleInterrupt(s)
  PROVE  \/ /\ session[s].input # << >>
            /\ session'[s].input = Tail(session[s].input)
            /\ thread'[s].cmd = Head(session[s].input)
            /\ session'[s].output = session[s].output
            /\ session'[s].steps = session[s].steps
         \/ /\ thread'[s].at # "busy"
            /\ session'[s].input = session[s].input
            /\ session'[s].output = session[s].output
            /\ session'[s].steps = session[s].steps \/ Steps(s)
         \/ /\ thread'[s].at # "busy"
            /\ session'[s].input = session[s].input
            /\ session'[s].steps = session[s].steps
            /\ session'[s].output
                 = Append(session[s].output, [head |-> session[s].outputs,
                                              stamp |-> session[s].calls,
                                              steps |-> session[s].steps])
  <1>1. /\ session \in [Sessions -> Session] /\ session[s] \in Session
        /\ thread \in [Sessions -> Thread] /\ thread[s] \in Thread
    BY DEF TypeOK
  <1> DEFINE e == [head |-> session[s].outputs, stamp |-> session[s].calls,
                   steps |-> session[s].steps]
  <1>2. CASE Show(s)
    <2>1. thread'[s].at = "reading"
      BY <1>1, <1>2 DEF Show, Goto, Thread
    <2>2. session' = session \/ \E goal : session' = [session EXCEPT ![s].outputs = goal]
      BY <1>2 DEF Show
    <2> QED
      BY <2>1, <2>2, <1>1 DEF Session
  <1>3. CASE Read(s) \/ PushLast(s)
    <2>1. thread'[s].at # "busy"
      BY <1>1, <1>3 DEF Read, PushLast, Goto, Thread
    <2>2. session' = session \/ session' = [session EXCEPT ![s].output = Append(@, e)]
      BY <1>3 DEF Read, PushLast, Pushed
    <2> HIDE DEF e
    <2>3. \/ session'[s] = session[s]
          \/ /\ session'[s].input = session[s].input
             /\ session'[s].steps = session[s].steps
             /\ session'[s].output = Append(session[s].output, e)
      BY <2>2, <1>1 DEF Session
    <2> QED
      BY <2>1, <2>3 DEF e
  <1>4. CASE Take(s)
    BY <1>1, <1>4 DEF Take, Session, Thread
  <1>5. CASE Clear(s) \/ Finish(s)
    <2>1. thread'[s].at # "busy"
      BY <1>1, <1>5 DEF Clear, Finish, Goto, Thread
    <2>2. \E f, g : session' = [session EXCEPT ![s].flag = f, ![s].outputs = g]
                    \/ session' = [session EXCEPT ![s].outputs = g]
      BY <1>5 DEF Clear, Finish
    <2> QED
      BY <2>1, <2>2, <1>1 DEF Session
  <1>6. CASE Stay(s) \/ End(s)
    <2>1. thread'[s].at # "busy"
      BY <1>1, <1>6 DEF Stay, End, Goto, Thread
    <2>2. \/ session' = session
          \/ /\ Steps(s)
             /\ \/ session' = [session EXCEPT ![s].steps = @ + 1]
                \/ session' = [session EXCEPT ![s].flag = "proved",
                                              ![s].steps = @ + 1]
      BY <1>6 DEF Stay, End, Steps
    <2>3. /\ session'[s].input = session[s].input
          /\ session'[s].output = session[s].output
          /\ session'[s].steps = session[s].steps \/ Steps(s)
      BY <2>2, <1>1 DEF Session
    <2> QED
      BY <2>1, <2>3
  <1>7. CASE Exit(s) \/ Unwind(s) \/ HandleInterrupt(s)
    BY <1>1, <1>7 DEF Exit, Unwind, HandleInterrupt, Goto, Thread
  <1> QED
    BY <1>2, <1>3, <1>4, <1>5, <1>6, <1>7 DEF ThreadStep

\* A session without proof steps stays so, and shows the goals of now.
LEMMA ThreadCalm ==
  ASSUME TypeOK, NEW s \in Sessions, ThreadStep(s) \/ HandleInterrupt(s),
         Calm(s)
  PROVE  /\ Calm(s)'
         /\ ~Steps(s) => ~Steps(s)' /\ session'[s].steps = session[s].steps
  <1>1. /\ session[s].input \in Seq(Command) /\ session[s].output \in Seq(Entry)
        /\ session[s].steps \in Nat
    BY DEF TypeOK, Session
  <1>2. CASE /\ session[s].input # << >>
             /\ session'[s].input = Tail(session[s].input)
             /\ thread'[s].cmd = Head(session[s].input)
             /\ session'[s].output = session[s].output
             /\ session'[s].steps = session[s].steps
    <2> DEFINE q == session[s].input
    <2>1. /\ Len(q) \in Nat /\ Len(q) >= 1 /\ Head(q) = q[1]
          /\ Len(Tail(q)) = Len(q) - 1
          /\ \A i \in 1 .. Len(q) - 1 : Tail(q)[i] = q[i + 1]
      <3>1. Len(q) \in Nat /\ Len(q) # 0
        BY <1>1, <1>2, LenProperties, EmptySeq
      <3> QED
        BY <3>1, <1>1, <1>2, HeadTailProperties
    <2>2. \A i \in 1 .. Len(q) : q[i] = "quit"
      BY DEF Calm, NoStepWaits
    <2> HIDE DEF q
    <2>3. Head(q) = "quit"
      BY <2>1, <2>2
    <2>4. \A i \in 1 .. Len(Tail(q)) : Tail(q)[i] = "quit"
      <3> SUFFICES ASSUME NEW i \in 1 .. Len(q) - 1 PROVE Tail(q)[i] = "quit"
        BY <2>1
      <3>1. i + 1 \in 1 .. Len(q)
        BY <2>1
      <3> QED
        BY <3>1, <2>1, <2>2
    <2>5. NoStepWaits(s)'
      BY <1>2, <2>4 DEF NoStepWaits, q
    <2>6. GoalsAreNow(s)'
      BY <1>2 DEF Calm, GoalsAreNow
    <2> QED
      BY <1>2, <2>3, <2>5, <2>6 DEF Calm, Steps, q
  <1>3. CASE /\ thread'[s].at # "busy"
             /\ session'[s].input = session[s].input
             /\ session'[s].output = session[s].output
             /\ session'[s].steps = session[s].steps \/ Steps(s)
    <2>1. NoStepWaits(s)'
      BY <1>3 DEF Calm, NoStepWaits
    <2>2. GoalsAreNow(s)'
      <3>1. CASE session'[s].steps = session[s].steps
        BY <3>1, <1>3 DEF Calm, GoalsAreNow
      <3>2. CASE Steps(s)
        <4>1. Len(session'[s].output) = 0
          BY <3>2, <1>3 DEF Calm
        <4> QED
          BY <4>1 DEF GoalsAreNow
      <3> QED
        BY <3>1, <3>2, <1>3
    <2> QED
      BY <1>3, <2>1, <2>2 DEF Calm, Steps
  <1>4. CASE /\ thread'[s].at # "busy"
             /\ session'[s].input = session[s].input
             /\ session'[s].steps = session[s].steps
             /\ session'[s].output
                  = Append(session[s].output, [head |-> session[s].outputs,
                                               stamp |-> session[s].calls,
                                               steps |-> session[s].steps])
    <2> DEFINE e == [head |-> session[s].outputs, stamp |-> session[s].calls,
                     steps |-> session[s].steps]
               q == session[s].output
    <2>1. NoStepWaits(s)'
      BY <1>4 DEF Calm, NoStepWaits
    <2>2. e \in Entry /\ e.steps = session[s].steps
      BY DEF TypeOK, Session, Entry
    <2>3. session'[s].output = Append(q, e)
      BY <1>4
    <2> HIDE DEF e, q
    <2>4. /\ q \in Seq(Entry) /\ Len(q) \in Nat
          /\ \A i \in 1 .. Len(q) : q[i].steps = session[s].steps
      BY <1>1, LenProperties DEF q, Calm, GoalsAreNow
    <2>5. /\ Len(Append(q, e)) = Len(q) + 1
          /\ \A i \in 1 .. Len(q) : Append(q, e)[i] = q[i]
          /\ Append(q, e)[Len(q) + 1] = e
      BY <2>2, <2>4, AppendProperties
    <2>6. \A i \in 1 .. Len(Append(q, e)) : Append(q, e)[i].steps = session[s].steps
      <3> SUFFICES ASSUME NEW i \in 1 .. Len(q) + 1
                   PROVE  Append(q, e)[i].steps = session[s].steps
        BY <2>5
      <3>1. i \in 1 .. Len(q) \/ i = Len(q) + 1
        BY <2>4
      <3> QED
        BY <3>1, <2>2, <2>4, <2>5
    <2>7. GoalsAreNow(s)'
      BY <1>4, <2>3, <2>6 DEF GoalsAreNow
    <2> QED
      BY <1>4, <2>1, <2>7 DEF Calm, Steps
  <1> QED
    BY <1>2, <1>3, <1>4, ThreadTalks

\* An entry of a list of records.
LEMMA RecordType ==
  ASSUME NEW q \in Seq(Record), NEW i \in 1 .. Len(q)
  PROVE  q[i][1] \in Sessions /\ q[i][2] \in Flag
  <1>1. q[i] \in Record
    BY ElementOfSeq
  <1> QED
    BY <1>1 DEF Record

\* Records stay true.
LEMMA HoldsKept ==
  ASSUME NEW q \in Seq(Record), HoldsIn(q, session),
         \A t \in Sessions : session[t].flag # "open" =>
                               session'[t].flag = session[t].flag
  PROVE  HoldsIn(q, session')
  BY RecordType DEF HoldsIn

\* The steps of a thread keep the invariant.
LEMMA ThreadKeeps ==
  ASSUME IInv, RInv, NEW s \in Sessions, ThreadStep(s) \/ HandleInterrupt(s)
  PROVE  RInv'
  <1>1. TypeOK /\ Phase /\ Birth
    BY DEF IInv
  <1>2. /\ UNCHANGED <<doneSessions, client>>
        /\ \A t \in Sessions : t # s => /\ session'[t] = session[t]
                                        /\ thread'[t] = thread[t]
        /\ thread'[s].at # "none"
        /\ session'[s].flag = session[s].flag \/ session[s].flag = "open"
    BY <1>1, ThreadEffect
  <1>3. \A c \in Clients : client[c].at \notin {"idle", "next"} =>
                             client[c].sess \in Sessions
    BY <1>1 DEF TypeOK
  <1>4. Owns'
    BY <1>2 DEF RInv, Owns
  <1>5. Started'
    <2>1. ASSUME NEW t \in Sessions, thread'[t].at = "none"
          PROVE  session'[t].input = << >> /\ session'[t].output = << >>
      BY <2>1, <1>2 DEF RInv, Started
    <2>2. ASSUME NEW c \in Clients, Makes(c)'
          PROVE  Calm(client[c].sess)' /\ Shows(c)'
      <3>1. /\ Makes(c) /\ client[c].sess \in Sessions
            /\ Calm(client[c].sess) /\ Shows(c)
        BY <2>2, <1>2, <1>3 DEF RInv, Started, Makes
      <3>2. CASE client[c].sess = s
        BY <3>1, <3>2, <1>1, <1>2, ThreadCalm DEF Shows
      <3>3. CASE client[c].sess # s
        BY <3>1, <3>3, <1>2
        DEF Calm, NoStepWaits, GoalsAreNow, Steps, Shows
      <3> QED
        BY <3>2, <3>3
    <2>3. \A c \in Clients : client'[c].sess = client[c].sess
      BY <1>2
    <2> QED
      BY <2>1, <2>2, <2>3 DEF Started
  <1>6. Truth'
    <2>1. \A t \in Sessions : session[t].flag # "open" =>
                                session'[t].flag = session[t].flag
      BY <1>2
    <2>2. HoldsIn(doneSessions, session')
      BY <2>1, <1>1, HoldsKept DEF RInv, Truth, TypeOK
    <2>3. ASSUME NEW c \in Clients
          PROVE  /\ HoldsIn(client[c].log, session')
                 /\ client[c].at \in {"join", "remove", "load", "record"} =>
                      client[c].status = session'[client[c].sess].flag
      <3>1. client[c].log \in Seq(Record)
        BY <1>1 DEF TypeOK, Client
      <3>2. HoldsIn(client[c].log, session')
        BY <3>1, <2>1, HoldsKept DEF RInv, Truth
      <3>3. client[c].at \in {"join", "remove", "load", "record"} =>
              /\ client[c].status = session[client[c].sess].flag
              /\ client[c].status # "open"
        BY DEF RInv, Truth, IInv, Told
      <3> QED
        BY <3>2, <3>3, <2>1, <1>3
    <2> QED
      BY <2>2, <2>3, <1>2 DEF Truth
  <1> QED
    BY <1>4, <1>5, <1>6 DEF RInv

-----------------------------------------------------------------------------
(***************************************************************************)
(* The steps of a client.                                                  *)
(***************************************************************************)

\* How a client comes to the places the invariant speaks of.
Enters(c) ==
  /\ client'[c].log \in {client[c].log, << >>, doneSessions}
  /\ client'[c].at = "await" => Name(c) \/ Send(c)
  /\ client'[c].at = "status" =>
       /\ client[c].at = "await" /\ session[client[c].sess].output # << >>
       /\ client'[c].reply = Head(session[client[c].sess].output)
       /\ client'[c].sess = client[c].sess /\ client'[c].op = client[c].op
  /\ client'[c].at = "drain" /\ client'[c].cmd = "step" =>
       \/ client'[c].sess \in client[c].mine
       \/ /\ client[c].at = "drain" /\ client[c].cmd = "step"
          /\ client'[c].sess = client[c].sess

\* A step of a client comes to these places so.
LEMMA ClientEnters ==
  ASSUME ~Shares, IInv, NEW c \in Clients,
         Begin(c) \/ ClientStep(c) \/ Timeout(c)
  PROVE  Enters(c)
  <1>1. /\ TypeOK /\ client \in [Clients -> Client] /\ client[c] \in Client
        /\ client[c].todo \subseteq Sessions /\ client[c].status \in Answers
        /\ client[c].sess \in Sessions \cup {Nobody}
    BY DEF IInv, TypeOK, Client, Answers
  <1>2. client[c].at \notin {"idle", "next"} => client[c].sess \in Sessions
    BY <1>1 DEF TypeOK
  \* Where nothing is said.
  <1>3. ASSUME client'[c].at \notin {"await", "status", "drain"},
               client'[c].log \in {client[c].log, << >>, doneSessions}
        PROVE  Enters(c)
    BY <1>3 DEF Enters
  <1>4. ASSUME NEW status \in Answers, client[c].sess \in Sessions,
               Returns(c, status)
        PROVE  Enters(c)
    <2>1. client'[c].at \in {"idle", "next"} /\ client'[c].log = << >>
      BY <1>1, <1>4, ReturnsType
    <2> QED
      BY <2>1, <1>3
  <1>5. ASSUME NEW status \in Answers, Fails(c, client[c].sess, status)
        PROVE  Enters(c)
    <2>1. client'[c].at = "idle" /\ client'[c].log = << >>
      BY <1>1, <1>5, FailsType
    <2> QED
      BY <2>1, <1>3
  <1>6. ASSUME NEW s \in Sessions, NEW op, NEW cmd, Lookup(c, s, op, cmd),
               cmd = "step" => s \in client[c].mine
        PROVE  Enters(c)
    BY <1>1, <1>6, LookupEffect DEF Enters
  <1>7. CASE Begin(c)
    <2>1. CASE \E s \in Sessions : BeginInit(c, s) \/ Interrupt(c, s)
      <3>1. /\ client'[c].at \in {"idle", "push"}
            /\ client'[c].log = client[c].log
        BY <2>1, <1>1 DEF BeginInit, Interrupt, Client
      <3> QED
        BY <3>1, <1>3
    <2>2. CASE \E s \in Sessions, cmd \in Command : BeginStep(c, s, cmd)
      BY <2>2, <1>6 DEF BeginStep
    <2>3. CASE BeginQuitAll(c)
      <3>1. client'[c].at = "next" /\ client'[c].log = client[c].log
        BY <2>3, <1>1 DEF BeginQuitAll, Client
      <3> QED
        BY <3>1, <1>3
    <2> QED
      BY <1>7, <2>1, <2>2, <2>3 DEF Begin
  <1>8. CASE \/ PushSession(c) \/ Spawn(c) \/ Join(c) \/ Load(c) \/ Kill(c)
    <2>1. /\ client'[c].at \in {"spawn", "name", "remove", "record", "drop"}
          /\ client'[c].log \in {client[c].log, doneSessions}
      BY <1>8, <1>1 DEF PushSession, Spawn, Join, Load, Kill, Client
    <2> QED
      BY <2>1, <1>3
  <1>9. CASE Name(c) \/ Send(c)
    <2>1. client'[c].at = "await" /\ client'[c].log = client[c].log
      BY <1>9, <1>1 DEF Name, Send, Client
    <2> QED
      BY <2>1, <1>9 DEF Enters
  <1>10. CASE Drain(c)
    <2>1. /\ client'[c].at = "drain" /\ client'[c].log = client[c].log
          /\ client[c].at = "drain" /\ client'[c].cmd = client[c].cmd
          /\ client'[c].sess = client[c].sess
      BY <1>10, <1>1 DEF Drain, Client
    <2> QED
      BY <2>1 DEF Enters
  <1>11. CASE Await(c)
    <2>1. CASE Fails(c, client[c].sess, "error")
      BY <2>1, <1>5 DEF Answers
    <2>2. CASE client' = [client EXCEPT ![c].at = "status",
                            ![c].reply = Head(session[client[c].sess].output)]
      <3>1. /\ client'[c].at = "status" /\ client'[c].log = client[c].log
            /\ client'[c].reply = Head(session[client[c].sess].output)
            /\ client'[c].sess = client[c].sess /\ client'[c].op = client[c].op
        BY <2>2, <1>1 DEF Client
      <3> QED
        BY <3>1, <1>11 DEF Enters, Await
    <2> QED
      BY <1>11, <2>1, <2>2 DEF Await
  <1>12. CASE Status(c)
    <2>1. client[c].sess \in Sessions
      BY <1>2, <1>12 DEF Status
    <2>2. CASE Returns(c, "waiting")
      BY <2>1, <2>2, <1>4 DEF Answers
    <2>3. CASE ~Returns(c, "waiting")
      <3>1. PICK place \in {"load", "join"}, status \in StatusNow(c) :
              client' = [client EXCEPT ![c].at = place, ![c].status = status]
        BY <2>3, <1>12 DEF Status
      <3>2. client'[c].at \in {"load", "join"} /\ client'[c].log = client[c].log
        BY <3>1, <1>1 DEF Client
      <3> QED
        BY <3>2, <1>3
    <2> QED
      BY <2>2, <2>3
  <1>13. CASE Remove(c) \/ Store(c) \/ Drop(c)
    <2>1. client[c].sess \in Sessions
      BY <1>2, <1>13 DEF Remove, Store, Drop
    <2>2. CASE Returns(c, client[c].status)
      BY <2>1, <2>2, <1>1, <1>4
    <2>3. CASE \/ client' = [client EXCEPT ![c].at = "load", ![c].list = {}]
               \/ client' = [client EXCEPT ![c].at = "join", ![c].log = << >>]
      <3>1. /\ client'[c].at \in {"load", "join"}
            /\ client'[c].log \in {client[c].log, << >>}
        BY <2>3, <1>1 DEF Client
      <3> QED
        BY <3>1, <1>3
    <2> QED
      BY <1>13, <2>2, <2>3 DEF Remove, Store, Drop
  <1>14. CASE QuitNext(c)
    <2>1. CASE \E s \in client[c].todo : Lookup(c, s, "quit", "quit")
      BY <2>1, <1>1, <1>6
    <2>2. CASE client' = [client EXCEPT ![c].at = "idle", ![c].op = "none"]
      <3>1. client'[c].at = "idle" /\ client'[c].log = client[c].log
        BY <2>2, <1>1 DEF Client
      <3> QED
        BY <3>1, <1>3
    <2>3. CASE Fails(c, client[c].sess, "error")
      BY <2>3, <1>5 DEF Answers
    <2>4. CASE \E s \in client[c].todo :
                 client' = [client EXCEPT ![c].at = "kill", ![c].sess = s,
                                          ![c].status = "none"]
      <3>1. client'[c].at = "kill" /\ client'[c].log = client[c].log
        BY <2>4, <1>1 DEF Client
      <3> QED
        BY <3>1, <1>3
    <2> QED
      BY <1>14, <2>1, <2>2, <2>3, <2>4 DEF QuitNext
  <1>15. CASE Timeout(c)
    <2>1. client'[c].at = "kill" /\ client'[c].log = << >>
      BY <1>15, <1>1, TimeoutType
    <2> QED
      BY <2>1, <1>3
  <1> QED
    BY <1>7, <1>8, <1>9, <1>10, <1>11, <1>12, <1>13, <1>14, <1>15
    DEF ClientStep

\* What a client does to the queues of a session: its own entries it takes,
\* and a command it has is sent.
LEMMA ClientTalks ==
  ASSUME TypeOK, NEW c \in Clients, Begin(c) \/ ClientStep(c) \/ Timeout(c),
         NEW t \in Sessions
  PROVE  /\ session'[t].steps = session[t].steps
         /\ \/ session'[t].output = session[t].output
            \/ /\ session[t].output # << >>
               /\ session'[t].output = Tail(session[t].output)
         /\ \/ session'[t].input = session[t].input
            \/ /\ client[c].at = "drain" /\ client[c].sess = t
               /\ session'[t].input = Append(session[t].input, client[c].cmd)
  <1>1. session \in [Sessions -> Session] /\ session[t] \in Session
    BY DEF TypeOK
  <1>2. client[c].at \notin {"idle", "next"} => client[c].sess \in Sessions
    BY DEF TypeOK
  <1>3. CASE UNCHANGED session
    BY <1>3
  <1>4. CASE \E s \in Sessions : session' = [session EXCEPT ![s].calls = @ + 1]
    BY <1>1, <1>4 DEF Session
  <1>5. CASE \E s \in Sessions : Interrupt(c, s)
    BY <1>1, <1>5 DEF Interrupt, Session
  <1>6. CASE Name(c)
    BY <1>1, <1>2, <1>6 DEF Name, Session
  <1>7. CASE Drain(c)
    BY <1>1, <1>2, <1>7 DEF Drain, Session
  <1>8. CASE Send(c)
    BY <1>1, <1>2, <1>8 DEF Send, Session
  <1>9. CASE Await(c)
    BY <1>1, <1>2, <1>9 DEF Await, Session
  <1>10. CASE \E s \in Sessions, cmd \in Command : BeginStep(c, s, cmd)
    BY <1>3, <1>4, <1>10 DEF BeginStep, Lookup
  <1>11. CASE QuitNext(c)
    <2>1. client[c].todo \subseteq Sessions
      BY DEF TypeOK, Client
    <2> QED
      BY <1>3, <1>4, <1>11, <2>1 DEF QuitNext, Lookup
  <1> QED
    BY <1>3, <1>5, <1>6, <1>7, <1>8, <1>9, <1>10, <1>11
    DEF Begin, ClientStep, Timeout, BeginInit, BeginQuitAll, PushSession,
        Spawn, Status, Join, Remove, Load, Store, Kill, Drop

\* A client leaves the threads to their commands.
LEMMA ClientCommands ==
  ASSUME TypeOK, NEW c \in Clients, Begin(c) \/ ClientStep(c) \/ Timeout(c)
  PROVE  \A s \in Sessions : thread'[s].cmd = thread[s].cmd
  <1>1. thread \in [Sessions -> Thread]
    BY DEF TypeOK
  <1>2. client[c].at \notin {"idle", "next"} => client[c].sess \in Sessions
    BY DEF TypeOK
  <1>3. CASE UNCHANGED thread
    BY <1>3
  <1>4. CASE Kill(c)
    BY <1>1, <1>2, <1>4 DEF Kill, Thread
  <1>5. CASE Spawn(c)
    <2>1. PICK place : Goto(client[c].sess, place)
      BY <1>5 DEF Spawn
    <2> QED
      BY <1>1, <2>1 DEF Goto, Thread
  <1> QED
    BY <1>3, <1>4, <1>5
    DEF Begin, ClientStep, Timeout, BeginInit, BeginStep, BeginQuitAll,
        Interrupt, PushSession, Name, Drain, Send, Await, Status, Join,
        Remove, Load, Store, QuitNext, Drop, OnlyClient

\* A session that is being made gets no proof step from anybody.
LEMMA ClientCalm ==
  ASSUME IInv, Owns, NEW c \in Clients,
         Begin(c) \/ ClientStep(c) \/ Timeout(c),
         NEW t \in Sessions, t \notin client[c].mine, Calm(t),
         ~(Spawn(c) /\ client[c].sess = t)
  PROVE  /\ Calm(t)'
         /\ ~Steps(t) => ~Steps(t)'
         /\ session'[t].steps = session[t].steps
  <1>1. /\ TypeOK
        /\ session[t].input \in Seq(Command) /\ session[t].output \in Seq(Entry)
        /\ client[c].cmd \in Command
    BY DEF IInv, TypeOK, Session, Client
  <1>2. /\ session'[t].steps = session[t].steps
        /\ \/ session'[t].output = session[t].output
           \/ /\ session[t].output # << >>
              /\ session'[t].output = Tail(session[t].output)
        /\ \/ session'[t].input = session[t].input
           \/ /\ client[c].at = "drain" /\ client[c].sess = t
              /\ session'[t].input = Append(session[t].input, client[c].cmd)
    BY <1>1, ClientTalks
  <1>3. thread'[t].cmd = thread[t].cmd
    BY <1>1, ClientCommands
  <1>4. Steps(t)' => Steps(t)
    <2>1. CASE Spawn(c)
      <3>1. PICK place : Goto(client[c].sess, place)
        BY <2>1 DEF Spawn
      <3>2. thread'[t] = thread[t]
        BY <2>1, <3>1, <1>1 DEF Goto, TypeOK
      <3> QED
        BY <3>2 DEF Steps
    <2>2. CASE ~Spawn(c)
      BY <2>2, <1>1, <1>3, ClientThreads DEF Steps
    <2> QED
      BY <2>1, <2>2
  <1>5. NoStepWaits(t)'
    <2>1. CASE session'[t].input = session[t].input
      BY <2>1 DEF Calm, NoStepWaits
    <2>2. CASE /\ client[c].at = "drain" /\ client[c].sess = t
               /\ session'[t].input = Append(session[t].input, client[c].cmd)
      <3> DEFINE q == session[t].input
                 e == client[c].cmd
      <3>1. e = "quit" /\ e \in Command
        BY <2>2, <1>1 DEF Owns, Command
      <3>2. q \in Seq(Command) /\ \A i \in 1 .. Len(q) : q[i] = "quit"
        BY <1>1 DEF Calm, NoStepWaits
      <3>3. session'[t].input = Append(q, e)
        BY <2>2
      <3> HIDE DEF q, e
      <3>4. /\ Len(q) \in Nat
            /\ Len(Append(q, e)) = Len(q) + 1
            /\ \A i \in 1 .. Len(q) : Append(q, e)[i] = q[i]
            /\ Append(q, e)[Len(q) + 1] = e
        BY <3>1, <3>2, AppendProperties, LenProperties
      <3>5. \A i \in 1 .. Len(Append(q, e)) : Append(q, e)[i] = "quit"
        <4> SUFFICES ASSUME NEW i \in 1 .. Len(q) + 1
                     PROVE  Append(q, e)[i] = "quit"
          BY <3>4
        <4>1. i \in 1 .. Len(q) \/ i = Len(q) + 1
          BY <3>4
        <4> QED
          BY <4>1, <3>1, <3>2, <3>4
      <3> QED
        BY <3>3, <3>5 DEF NoStepWaits
    <2> QED
      BY <2>1, <2>2, <1>2
  <1>6. GoalsAreNow(t)'
    <2>1. CASE session'[t].output = session[t].output
      BY <2>1, <1>2 DEF Calm, GoalsAreNow
    <2>2. CASE /\ session[t].output # << >>
               /\ session'[t].output = Tail(session[t].output)
      <3> DEFINE q == session[t].output
      <3>1. /\ Len(q) \in Nat /\ Len(Tail(q)) = Len(q) - 1
            /\ \A i \in 1 .. Len(q) - 1 : Tail(q)[i] = q[i + 1]
        BY <2>2, <1>1, HeadTailProperties, LenProperties
      <3>2. \A i \in 1 .. Len(q) : q[i].steps = session[t].steps
        BY DEF Calm, GoalsAreNow
      <3> HIDE DEF q
      <3>3. \A i \in 1 .. Len(Tail(q)) : Tail(q)[i].steps = session[t].steps
        <4> SUFFICES ASSUME NEW i \in 1 .. Len(q) - 1
                     PROVE  Tail(q)[i].steps = session[t].steps
          BY <3>1
        <4>1. i + 1 \in 1 .. Len(q)
          BY <3>1
        <4> QED
          BY <4>1, <3>1, <3>2
      <3> QED
        BY <2>2, <3>3, <1>2 DEF GoalsAreNow, q
    <2> QED
      BY <2>1, <2>2, <1>2
  <1>7. session[t].output = << >> => session'[t].output = << >>
    BY <1>2
  <1> QED
    BY <1>2, <1>4, <1>5, <1>6, <1>7 DEF Calm

\* The steps of a client keep Owns.
LEMMA OwnsKept ==
  ASSUME ~Shares, IInv, Owns, NEW c \in Clients,
         Begin(c) \/ ClientStep(c) \/ Timeout(c)
  PROVE  Owns'
  <1>1. TypeOK /\ Birth /\ client \in [Clients -> Client] /\ client[c] \in Client
    BY DEF IInv, TypeOK
  <1>2. /\ \A d \in Clients : d # c => client'[d] = client[d]
        /\ Spawn(c) \/ Starts(c) \/ Works(c)
    BY <1>1, ClientMove
  <1>3. \/ client'[c].mine = client[c].mine
        \/ /\ client[c].op = "init" /\ client'[c].op # "init"
           /\ client'[c].mine = client[c].mine \cup {client[c].sess}
    <2>1. CASE Spawn(c)
      BY <2>1, <1>1 DEF Spawn, Client
    <2>2. CASE ~Spawn(c)
      BY <2>2, <1>2 DEF Starts, Works, Learns
    <2> QED
      BY <2>1, <2>2
  \* A session that prover-init works on is new, or the client's as before.
  <1>4. client'[c].op = "init" =>
          \A d \in Clients :
            /\ client'[c].sess \notin client[d].mine
            /\ d # c /\ client[d].op = "init" => client[d].sess # client'[c].sess
    <2> HAVE client'[c].op = "init"
    <2>1. CASE \E s \in Sessions : BeginInit(c, s) /\ client'[c].sess = s
      <3>1. PICK s \in Sessions : BeginInit(c, s) /\ client'[c].sess = s
        BY <2>1
      <3>2. /\ thread[s].at = "none" /\ \A d \in Clients : client[d].sess # s
        BY <3>1 DEF BeginInit
      <3>3. \A d \in Clients : s \notin client[d].mine
        BY <3>2, <1>1 DEF Birth
      <3> QED
        BY <3>1, <3>2, <3>3
    <2>2. CASE client[c].op = "init" /\ client'[c].sess = client[c].sess
      BY <2>2 DEF Owns
    <2>3. CASE Spawn(c)
      <3>1. client'[c].sess = client[c].sess /\ client[c].op = "init"
        BY <2>3, <1>1 DEF Spawn, Birth, Client
      <3> QED
        BY <3>1, <2>2
    <2>4. CASE Starts(c)
      BY <2>1, <2>2, <2>4, <1>1 DEF Starts, PushSession, Name, Birth
    <2>5. CASE Works(c)
      BY <2>2, <2>5 DEF Works
    <2> QED
      BY <2>3, <2>4, <2>5, <1>2
  <1>5. ASSUME NEW a \in Clients, client'[a].op = "init", NEW b \in Clients
        PROVE  /\ client'[a].sess \notin client'[b].mine
               /\ b # a /\ client'[b].op = "init" =>
                    client'[b].sess # client'[a].sess
    <2>1. CASE a = c
      <3>1. CASE b = c
        BY <2>1, <3>1, <1>3, <1>4, <1>5
      <3>2. CASE b # c
        BY <2>1, <3>2, <1>2, <1>4, <1>5
      <3> QED
        BY <3>1, <3>2
    <2>2. CASE a # c
      <3>1. client'[a] = client[a] /\ client[a].op = "init"
        BY <2>2, <1>2, <1>5
      <3>2. CASE b = c
        BY <2>2, <3>1, <3>2, <1>3, <1>4 DEF Owns
      <3>3. CASE b # c
        BY <3>1, <3>3, <1>2 DEF Owns
      <3> QED
        BY <3>2, <3>3
    <2> QED
      BY <2>1, <2>2
  <1>6. ASSUME NEW a \in Clients, client'[a].at = "drain",
               client'[a].cmd = "step"
        PROVE  client'[a].sess \in client'[a].mine
    <2>1. CASE a = c
      <3>1. client[c].mine \subseteq client'[c].mine
        BY <1>3
      <3> QED
        BY <2>1, <3>1, <1>6, ClientEnters DEF Enters, Owns
    <2>2. CASE a # c
      BY <2>2, <1>2, <1>6 DEF Owns
    <2> QED
      BY <2>1, <2>2
  <1> QED
    BY <1>5, <1>6 DEF Owns

\* A client's session is calm where that session is.
LEMMA CalmThere ==
  ASSUME NEW c \in Clients, NEW s \in Sessions, client'[c].sess = s, Calm(s)'
  PROVE  Calm(client[c].sess)'
  BY DEF Calm, NoStepWaits, GoalsAreNow, Steps

\* A client that comes to be in prover-init, or goes on in it.
LEMMA ActorStarts ==
  ASSUME ~Shares, IInv, Owns, Started, NEW c \in Clients,
         Begin(c) \/ ClientStep(c) \/ Timeout(c), Makes(c)'
  PROVE  Calm(client[c].sess)' /\ Shows(c)'
  <1>1. /\ TypeOK /\ Birth /\ client \in [Clients -> Client]
        /\ client[c] \in Client
        /\ session \in [Sessions -> Session] /\ thread \in [Sessions -> Thread]
    BY DEF IInv, TypeOK
  <1>2. client[c].at \notin {"idle", "next"} => client[c].sess \in Sessions
    BY <1>1 DEF TypeOK
  <1>3. Enters(c) /\ (Spawn(c) \/ Starts(c) \/ Works(c))
    BY <1>1, ClientEnters, ClientMove
  \* A session that has not started is calm, and so is one that starts.
  <1>4. ASSUME NEW s \in Sessions, thread[s].at = "none",
               session'[s].input = session[s].input,
               session'[s].output = session[s].output
        PROVE  Calm(s)'
    <2>1. session'[s].input = << >> /\ session'[s].output = << >>
      BY <1>4 DEF Started
    <2>2. Len(session'[s].input) = 0 /\ Len(session'[s].output) = 0
      BY <2>1
    <2> QED
      BY <2>1, <2>2 DEF Calm, NoStepWaits, GoalsAreNow
  <1>5. CASE Spawn(c)
    <2>1. PICK s \in Sessions : s = client[c].sess
      BY <1>1, <1>2, <1>5 DEF Spawn
    <2>2. thread[s].at = "none" /\ UNCHANGED session
      BY <1>1, <1>5, <2>1 DEF Spawn, Birth
    <2>3. client'[c].sess = s /\ client'[c].at = "name"
      BY <1>1, <1>5, <2>1 DEF Spawn, Client
    <2>4. Calm(s)'
      BY <2>2, <1>4
    <2> QED
      BY <2>3, <2>4, CalmThere DEF Shows
  <1>6. CASE \E s \in Sessions : BeginInit(c, s) /\ client'[c].sess = s
    <2>1. PICK s \in Sessions : BeginInit(c, s) /\ client'[c].sess = s
      BY <1>6
    <2>2. /\ thread[s].at = "none" /\ UNCHANGED session
          /\ client'[c].at = "push"
      BY <2>1, <1>1 DEF BeginInit, Client
    <2>3. Calm(s)'
      BY <2>2, <1>4
    <2> QED
      BY <2>1, <2>2, <2>3, CalmThere DEF Shows
  \* The session it was at.
  <1>7. CASE ~Spawn(c) /\ Makes(c) /\ client'[c].sess = client[c].sess
    <2>1. PICK s \in Sessions : s = client[c].sess
      BY <1>2, <1>7 DEF Makes
    <2>2. Calm(s) /\ s \notin client[c].mine
      BY <2>1, <1>7 DEF Started, Owns, Makes
    <2>3. /\ Calm(s)'
          /\ ~Steps(s) => ~Steps(s)'
          /\ session'[s].steps = session[s].steps
      BY <2>1, <2>2, <1>7, ClientCalm
    <2>4. ASSUME client'[c].at = "status"
          PROVE  ~Steps(s) /\ client'[c].reply.steps = session[s].steps
      <3> DEFINE q == session[s].output
      <3>1. client[c].at = "await" /\ q # << >> /\ client'[c].reply = Head(q)
        BY <2>1, <2>4, <1>3 DEF Enters
      <3>2. q \in Seq(Entry) /\ Len(q) \in Nat /\ Len(q) >= 1 /\ Head(q) = q[1]
        <4>1. q \in Seq(Entry)
          BY <2>1, <1>1 DEF Session
        <4> HIDE DEF q
        <4>2. Len(q) \in Nat /\ Len(q) # 0
          BY <3>1, <4>1, LenProperties, EmptySeq
        <4> QED
          BY <4>1, <4>2, <3>1, HeadTailProperties
      <3>3. q[1].steps = session[s].steps
        BY <2>2, <3>2 DEF Calm, GoalsAreNow
      <3> QED
        BY <2>2, <3>1, <3>2, <3>3 DEF Calm
    <2>5. client'[c].sess = s
      BY <2>1, <1>7
    <2>6. Shows(c)'
      BY <2>3, <2>4, <2>5 DEF Shows, Steps
    <2> QED
      BY <2>3, <2>5, <2>6, CalmThere
  <1>8. CASE Works(c)
    <2>1. /\ client[c].op = "init" /\ client'[c].sess = client[c].sess
          /\ client'[c].at \in {"await", "status"}
          /\ client[c].at \notin {"push", "spawn", "name"}
      BY <1>8 DEF Works, Makes
    <2>2. client[c].at = "await"
      BY <2>1, <1>1, <1>3 DEF Enters, Name, Send, Birth
    <2>3. Makes(c) /\ ~Spawn(c)
      BY <2>1, <2>2 DEF Makes, Spawn
    <2> QED
      BY <2>1, <2>3, <1>7
  <1>9. CASE (PushSession(c) \/ Name(c)) /\ client'[c].sess = client[c].sess
    <2>1. Makes(c) /\ ~Spawn(c)
      BY <1>1, <1>9 DEF Makes, Spawn, PushSession, Name, Birth
    <2> QED
      BY <2>1, <1>7, <1>9
  <1> QED
    BY <1>3, <1>5, <1>6, <1>8, <1>9 DEF Starts

\* The steps of a client keep Started.
LEMMA StartedKept ==
  ASSUME ~Shares, IInv, Owns, Started, NEW c \in Clients,
         Begin(c) \/ ClientStep(c) \/ Timeout(c)
  PROVE  Started'
  <1>1. /\ TypeOK /\ Birth
        /\ \A d \in Clients : d # c => client'[d] = client[d]
    BY ClientMove DEF IInv
  <1>2. \A d \in Clients : client[d].at \notin {"idle", "next"} =>
                             client[d].sess \in Sessions
    BY <1>1 DEF TypeOK
  <1>3. ASSUME NEW s \in Sessions, thread'[s].at = "none"
        PROVE  session'[s].input = << >> /\ session'[s].output = << >>
    <2>1. thread[s].at = "none"
      <3>1. CASE Spawn(c)
        <4>1. PICK place \in {"showing", "busy"} : Goto(client[c].sess, place)
          BY <3>1 DEF Spawn
        <4> QED
          BY <4>1, <1>1, <1>3 DEF Goto, TypeOK, Thread
      <3>2. CASE ~Spawn(c)
        BY <3>2, <1>1, <1>3, ClientThreads
      <3> QED
        BY <3>1, <3>2
    <2>2. session[s].input = << >> /\ session[s].output = << >>
      BY <2>1 DEF Started
    <2>3. ~(client[c].at = "drain" /\ client[c].sess = s)
      BY <2>1, <1>1 DEF Birth
    <2> QED
      BY <2>2, <2>3, <1>1, ClientTalks
  <1>4. ASSUME NEW d \in Clients, Makes(d)'
        PROVE  Calm(client[d].sess)' /\ Shows(d)'
    <2>1. CASE d = c
      BY <2>1, <1>4, ActorStarts
    <2>2. CASE d # c
      <3>1. client'[d] = client[d] /\ Makes(d)
        BY <2>2, <1>1, <1>4 DEF Makes
      <3>2. PICK s \in Sessions : s = client[d].sess
        BY <3>1, <1>2 DEF Makes
      <3>3. /\ Calm(s) /\ Shows(d) /\ s \notin client[c].mine
            /\ ~(Spawn(c) /\ client[c].sess = s)
        BY <2>2, <3>1, <3>2, <1>1 DEF Started, Makes, Owns, Spawn, Birth
      <3>4. /\ Calm(s)'
            /\ ~Steps(s) => ~Steps(s)'
            /\ session'[s].steps = session[s].steps
        BY <3>3, ClientCalm
      <3>5. client'[d].sess = s /\ Shows(d)'
        BY <3>1, <3>2, <3>3, <3>4 DEF Shows, Steps
      <3> QED
        BY <3>4, <3>5, CalmThere
    <2> QED
      BY <2>1, <2>2
  <1> QED
    BY <1>3, <1>4 DEF Started

\* A true record in front of a true list.
LEMMA HoldsMore ==
  ASSUME NEW e \in Record, NEW q \in Seq(Record), NEW S,
         HoldsIn(q, S), e[2] # "open", e[2] = S[e[1]].flag
  PROVE  HoldsIn(<<e>> \o q, S)
  <1>1. /\ <<e>> \in Seq(Record) /\ Len(<<e>>) = 1 /\ <<e>>[1] = e
        /\ Len(q) \in Nat
    BY LenProperties
  <1>2. /\ Len(<<e>> \o q) = Len(q) + 1
        /\ (<<e>> \o q)[1] = e
        /\ \A i \in 2 .. Len(q) + 1 : (<<e>> \o q)[i] = q[i - 1]
    BY <1>1, ConcatProperties
  <1> SUFFICES ASSUME NEW i \in 1 .. Len(q) + 1
               PROVE  /\ (<<e>> \o q)[i][2] # "open"
                      /\ (<<e>> \o q)[i][2] = S[(<<e>> \o q)[i][1]].flag
    BY <1>2 DEF HoldsIn
  <1>3. CASE i = 1
    BY <1>2, <1>3
  <1>4. CASE i # 1
    <2>1. i \in 2 .. Len(q) + 1 /\ i - 1 \in 1 .. Len(q)
      BY <1>1, <1>4
    <2> QED
      BY <2>1, <1>2 DEF HoldsIn
  <1> QED
    BY <1>3, <1>4

\* *done-sessions* is stored by Store alone.
LEMMA ClientRecords ==
  ASSUME NEW c \in Clients, Begin(c) \/ ClientStep(c) \/ Timeout(c)
  PROVE  doneSessions' = doneSessions \/ Store(c)
  BY DEF Begin, ClientStep, Timeout, BeginInit, BeginStep, BeginQuitAll,
         Interrupt, PushSession, Spawn, Name, Drain, Send, Await, Status,
         Join, Remove, Load, QuitNext, Kill, Drop, OnlyClient

\* The steps of a client keep the truth of what is and will be on record.
LEMMA TruthKept ==
  ASSUME ~Shares, IInv, RInv, NEW c \in Clients,
         Begin(c) \/ ClientStep(c) \/ Timeout(c)
  PROVE  Truth'
  <1>1. /\ TypeOK /\ Birth /\ Told /\ client[c] \in Client
        /\ doneSessions \in Seq(Record)
        /\ \A d \in Clients : client[d].log \in Seq(Record)
    BY DEF IInv, TypeOK, Client
  <1>2. /\ \A s \in Sessions : session'[s].flag = session[s].flag
        /\ \A d \in Clients : d # c => client'[d] = client[d]
    BY <1>1, ClientFlags, ClientMove DEF FlagsStay
  <1>3. \A d \in Clients : client[d].at \notin {"idle", "next"} =>
                             client[d].sess \in Sessions
    BY <1>1 DEF TypeOK
  <1>4. /\ HoldsIn(doneSessions, session')
        /\ \A d \in Clients : HoldsIn(client[d].log, session')
        /\ HoldsIn(<< >>, session')
    <2>1. HoldsIn(<< >>, session')
      BY DEF HoldsIn
    <2> QED
      BY <2>1, <1>1, <1>2, HoldsKept DEF RInv, Truth
  <1>5. HoldsIn(doneSessions', session')
    <2>1. CASE doneSessions' = doneSessions
      BY <2>1, <1>4
    <2>2. CASE Store(c)
      <3> DEFINE e == <<client[c].sess, client[c].status>>
      <3>1. /\ client[c].sess \in Sessions
            /\ client[c].status \in {"proved", "quit"}
            /\ client[c].status = session[client[c].sess].flag
        BY <2>2, <1>1, <1>3 DEF Store, Told, RInv, Truth
      <3>2. e \in Record /\ e[2] # "open" /\ e[2] = session'[e[1]].flag
        BY <3>1, <1>2 DEF Record, Flag
      <3>3. doneSessions' = <<e>> \o client[c].log
        BY <2>2 DEF Store
      <3> HIDE DEF e
      <3> QED
        BY <3>2, <3>3, <1>1, <1>4, HoldsMore
    <2> QED
      BY <2>1, <2>2, ClientRecords
  <1>6. ASSUME NEW d \in Clients
        PROVE  /\ HoldsIn(client'[d].log, session')
               /\ client'[d].at \in {"join", "remove", "load", "record"} =>
                    client'[d].status = session'[client'[d].sess].flag
    <2>1. CASE d # c
      <3>1. client'[d] = client[d]
        BY <2>1, <1>2
      <3> QED
        BY <3>1, <1>2, <1>3, <1>4 DEF RInv, Truth
    <2>2. CASE d = c
      <3>1. HoldsIn(client'[c].log, session')
        BY <1>4, ClientEnters DEF Enters
      <3>2. ASSUME client'[c].at \in {"join", "remove", "load", "record"}
            PROVE  client'[c].status = session'[client'[c].sess].flag
        <4>1. /\ client[c].at \in {"status", "join", "remove", "load", "record"}
              /\ client'[c].status \in {"proved", "quit"}
              /\ client'[c].sess = client[c].sess
              /\ client[c].at = "status" => client'[c].status \in StatusNow(c)
              /\ client[c].at # "status" => client'[c].status = client[c].status
          BY <3>2, ClientTold
        <4>2. client[c].sess \in Sessions
          BY <4>1, <1>3
        <4>3. CASE client[c].at = "status"
          <5>1. client'[c].status = session[client[c].sess].flag
            BY <4>1, <4>3, <1>1, EndIsFlag DEF RInv
          <5> QED
            BY <5>1, <4>1, <4>2, <1>2
        <4>4. CASE client[c].at # "status"
          BY <4>1, <4>2, <4>4, <1>2 DEF RInv, Truth
        <4> QED
          BY <4>3, <4>4
      <3> QED
        BY <2>2, <3>1, <3>2
    <2> QED
      BY <2>1, <2>2
  <1> QED
    BY <1>5, <1>6 DEF Truth

-----------------------------------------------------------------------------
(***************************************************************************)
(* The record is true.                                                     *)
(***************************************************************************)

\* The invariant holds in every state of every behaviour.
LEMMA RecordInvariance ==
  ASSUME ~Shares
  PROVE  Spec => []RInv
  <1>1. Init => RInv
    <2> SUFFICES ASSUME Init PROVE RInv
      OBVIOUS
    <2>1. /\ \A c \in Clients : /\ client[c].at = "idle"
                                /\ client[c].op = "none"
                                /\ client[c].log = << >>
          /\ \A s \in Sessions : /\ session[s].input = << >>
                                 /\ session[s].output = << >>
          /\ doneSessions = << >>
      BY DEF Init, Idle, NewSession
    <2> QED
      BY <2>1 DEF RInv, Owns, Started, Makes, Truth, HoldsIn
  <1>2. IInv /\ RInv /\ [Next]_vars => RInv'
    <2> SUFFICES ASSUME IInv, RInv, [Next]_vars PROVE RInv'
      OBVIOUS
    <2>1. CASE \E s \in Sessions : ThreadStep(s) \/ HandleInterrupt(s)
      BY <2>1, ThreadKeeps
    <2>2. CASE \E c \in Clients : Begin(c) \/ ClientStep(c) \/ Timeout(c)
      BY <2>2, OwnsKept, StartedKept, TruthKept DEF RInv
    <2>3. CASE UNCHANGED vars
      BY <2>3 DEF vars, RInv, Owns, Started, Makes, Calm, NoStepWaits,
                  GoalsAreNow, Steps, Shows, Truth, HoldsIn
    <2> QED
      BY <2>1, <2>2, <2>3 DEF Next
  <1> QED
    BY <1>1, <1>2, Invariance, PTL DEF Spec

\* What *done-sessions* says of a proof is how it has ended, with any number of
\* clients and sessions, each stepped by the client that has made it, whoever
\* interrupts, quits or kills them.
THEOREM RecordHolds == Spec => []RecordIsTrue
  <1>1. CASE Shares
    <2>1. RecordIsTrue
      BY <1>1 DEF RecordIsTrue
    <2> QED
      BY <2>1, PTL
  <1>2. CASE ~Shares
    <2>1. RInv => RecordIsTrue
      BY DEF RInv, Truth, HoldsIn, RecordIsTrue
    <2> QED
      BY <2>1, <1>2, RecordInvariance, PTL
  <1> QED
    BY <1>1, <1>2

-----------------------------------------------------------------------------
(***************************************************************************)
(* The sessions implement ProofService.  A client that is told of the end  *)
(* of a proof has waited for its thread, and what it is told and puts on   *)
(* record is the flag (Truth).  A session that is killed makes its client  *)
(* say nothing.                                                            *)
(***************************************************************************)

Waited(c) ==
  /\ client[c].at \in {"kill", "drop"} => client[c].status \in {"none", "timeout"}
  /\ \/ client[c].at = "remove"
     \/ client[c].at \in {"load", "record"} /\ client[c].op # "init"
     => thread[client[c].sess].at = "dead"

AllWaited == \A c \in Clients : Waited(c)

\* The steps that end prover-init and prover-step with the end of a proof.
Tells(c) == \/ Remove(c) /\ client[c].op = "init"
            \/ Store(c) /\ client[c].op # "init"

\* A dead thread stays dead.
LEMMA DeadStaysDead ==
  ASSUME IInv, [Next]_vars, NEW t \in Sessions, thread[t].at = "dead"
  PROVE  thread'[t].at = "dead"
  <1>1. thread \in [Sessions -> Thread] /\ TypeOK /\ Birth
    BY DEF IInv, TypeOK
  <1>2. CASE \E s \in Sessions : ThreadStep(s) \/ HandleInterrupt(s)
    <2>1. PICK s \in Sessions : ThreadStep(s) \/ HandleInterrupt(s)
      BY <1>2
    <2>2. CASE t # s
      BY <2>1, <2>2, ThreadEffect DEF IInv
    <2>3. CASE t = s
      BY <2>1, <2>3
      DEF ThreadStep, Show, Read, Clear, Take, Stay, End, Finish, PushLast,
          Exit, Unwind, HandleInterrupt, Interruptible
    <2> QED
      BY <2>2, <2>3
  <1>3. CASE \E c \in Clients : Begin(c) \/ ClientStep(c) \/ Timeout(c)
    <2>1. PICK c \in Clients : Begin(c) \/ ClientStep(c) \/ Timeout(c)
      BY <1>3
    <2>2. CASE Spawn(c)
      <3>1. client[c].sess \in Sessions /\ thread[client[c].sess].at = "none"
        BY <2>2, <1>1 DEF Spawn, Birth, TypeOK
      <3> QED
        BY <3>1, <2>2, <1>1 DEF Spawn, Goto
    <2>3. CASE ~Spawn(c)
      BY <2>1, <2>3, <1>1, ClientThreads
    <2> QED
      BY <2>2, <2>3
  <1>4. CASE UNCHANGED vars
    BY <1>4 DEF vars
  <1> QED
    BY <1>2, <1>3, <1>4 DEF Next

\* A step of a client: what is said of it is kept, and only the end of
\* prover-init and of prover-step tells it of the end of a proof.
LEMMA ActorWaits ==
  ASSUME IInv, RInv, [Next]_vars, NEW c \in Clients,
         Begin(c) \/ ClientStep(c) \/ Timeout(c), Waited(c)
  PROVE  /\ Waited(c)'
         /\ Tells(c) \/ ToldEnd(c)' = ToldEnd(c) \/ ToldEnd(c)' = << >>
  <1> DEFINE Goal == /\ Waited(c)'
                     /\ \/ Tells(c)
                        \/ ToldEnd(c)' = ToldEnd(c) \/ ToldEnd(c)' = << >>
  <1>1. /\ TypeOK /\ Told /\ Phase
        /\ client \in [Clients -> Client] /\ client[c] \in Client
        /\ client[c].todo \subseteq Sessions /\ client[c].status \in Answers
        /\ client[c].sess \in Sessions \cup {Nobody}
    BY DEF IInv, TypeOK, Client, Answers
  <1>2. client[c].at \notin {"idle", "next"} => client[c].sess \in Sessions
    BY <1>1 DEF TypeOK
  <1>3. \A s \in Sessions : thread[s].at = "dead" => thread'[s].at = "dead"
    BY DeadStaysDead
  \* Where nothing is said.
  <1>4. ASSUME client'[c].at \notin {"remove", "load", "record", "drop", "kill"},
               \/ client'[c].at \notin {"idle", "next"}
               \/ client'[c].status \notin {"proved", "quit"}
        PROVE  Goal
    BY <1>4 DEF Waited, ToldEnd
  <1>5. ASSUME NEW s \in Sessions, NEW op, NEW cmd, Lookup(c, s, op, cmd)
        PROVE  Goal
    <2>1. /\ client'[c].at \in {"idle", "drain"}
          /\ client'[c].status \in {"missing", "none"}
      BY <1>1, <1>5, LookupEffect
    <2> QED
      BY <2>1, <1>4
  <1>6. ASSUME NEW status \in {"none", "waiting", "timeout"},
               client[c].sess \in Sessions, Returns(c, status)
        PROVE  Goal
    <2>1. status \in Answers /\ status \notin {"proved", "quit"}
      BY <1>6 DEF Answers
    <2>2. client'[c].at \in {"idle", "next"} /\ client'[c].status = status
      BY <2>1, <1>1, <1>6, ReturnsType
    <2> QED
      BY <2>1, <2>2, <1>4
  <1>7. ASSUME NEW s \in Sessions \cup {Nobody}, Fails(c, s, "error")
        PROVE  Goal
    <2>1. client'[c].at = "idle" /\ client'[c].status = "error"
      BY <1>1, <1>7, FailsType DEF Answers
    <2> QED
      BY <2>1, <1>4
  \* Where it goes on towards the end of the call.
  <1>8. ASSUME client'[c].at \in {"load", "record", "remove", "join"},
               client'[c].sess = client[c].sess, client'[c].op = client[c].op,
               client[c].sess \in Sessions,
               \/ thread[client[c].sess].at = "dead"
               \/ client'[c].at \in {"load", "record"} /\ client[c].op = "init"
               \/ client'[c].at = "join"
        PROVE  Goal
    BY <1>3, <1>8 DEF Waited, ToldEnd
  <1>9. CASE Begin(c)
    <2>1. CASE \E s \in Sessions : BeginInit(c, s)
      <3>1. client'[c].at = "push"
        BY <2>1, <1>1 DEF BeginInit, Client
      <3> QED
        BY <3>1, <1>4
    <2>2. CASE \E s \in Sessions : Interrupt(c, s)
      <3>1. UNCHANGED client /\ client[c].at = "idle"
        BY <2>2 DEF Interrupt
      <3> QED
        BY <3>1 DEF Waited, ToldEnd
    <2>3. CASE \E s \in Sessions, cmd \in Command : BeginStep(c, s, cmd)
      BY <2>3, <1>5 DEF BeginStep
    <2>4. CASE BeginQuitAll(c)
      <3>1. client'[c].at = "next" /\ client'[c].status = "none"
        BY <2>4, <1>1 DEF BeginQuitAll, Client
      <3> QED
        BY <3>1, <1>4
    <2> QED
      BY <1>9, <2>1, <2>2, <2>3, <2>4 DEF Begin
  <1>10. CASE PushSession(c) \/ Spawn(c) \/ Name(c) \/ Drain(c) \/ Send(c)
    <2>1. client'[c].at \in {"spawn", "name", "await", "drain"}
      BY <1>10, <1>1 DEF PushSession, Spawn, Name, Drain, Send, Client
    <2>2. client'[c].at \notin {"remove", "load", "record", "drop", "kill",
                                "idle", "next"}
      BY <2>1
    <2> QED
      BY <2>2, <1>4
  <1>11. CASE Await(c)
    <2>1. CASE Fails(c, client[c].sess, "error")
      BY <2>1, <1>1, <1>7
    <2>2. CASE client' = [client EXCEPT ![c].at = "status",
                            ![c].reply = Head(session[client[c].sess].output)]
      <3>1. client'[c].at = "status"
        BY <2>2, <1>1 DEF Client
      <3> QED
        BY <3>1, <1>4
    <2> QED
      BY <1>11, <2>1, <2>2 DEF Await
  <1>12. CASE Status(c)
    <2>1. client[c].sess \in Sessions
      BY <1>2, <1>12 DEF Status
    <2>2. CASE Returns(c, "waiting")
      BY <2>1, <2>2, <1>6
    <2>3. CASE ~Returns(c, "waiting")
      <3>1. PICK status \in StatusNow(c) :
              client' = [client EXCEPT
                ![c].at = IF client[c].op = "init" THEN "load" ELSE "join",
                ![c].status = status]
        BY <2>3, <1>12 DEF Status
      <3>2. /\ client'[c].at = IF client[c].op = "init" THEN "load" ELSE "join"
            /\ client'[c].sess = client[c].sess /\ client'[c].op = client[c].op
        BY <3>1, <1>1 DEF Client
      <3> QED
        BY <3>2, <2>1, <1>8
    <2> QED
      BY <2>2, <2>3
  <1>13. CASE Join(c)
    <2>1. /\ client'[c].at = "remove" /\ client'[c].sess = client[c].sess
          /\ client'[c].op = client[c].op /\ client[c].at = "join"
      BY <1>13, <1>1 DEF Join, Client
    <2>2. client[c].sess \in Sessions /\ ~Alive(client[c].sess)
      BY <1>2, <1>13 DEF Join, Over
    <2>3. session[client[c].sess].flag # "open"
      BY <2>1, <1>1 DEF RInv, Truth, Told
    <2>4. thread[client[c].sess].at = "dead"
      BY <2>2, <2>3, <1>1 DEF Alive, Phase
    <2> QED
      BY <2>1, <2>2, <2>4, <1>8
  <1>14. CASE Remove(c)
    <2>1. /\ client[c].at = "remove" /\ client[c].sess \in Sessions
          /\ thread[client[c].sess].at = "dead"
      BY <1>2, <1>14 DEF Remove, Waited
    <2>2. CASE client[c].op = "init"
      <3>1. Returns(c, client[c].status)
        BY <2>2, <1>14 DEF Remove
      <3>2. client'[c].at \in {"idle", "next"}
        BY <2>1, <3>1, <1>1, ReturnsType
      <3> QED
        BY <2>2, <3>2, <1>14 DEF Waited, Tells
    <2>3. CASE client[c].op # "init"
      <3>1. client' = [client EXCEPT ![c].at = "load", ![c].list = {}]
        BY <2>3, <1>14 DEF Remove
      <3>2. /\ client'[c].at = "load" /\ client'[c].sess = client[c].sess
            /\ client'[c].op = client[c].op
        BY <3>1, <1>1 DEF Client
      <3> QED
        BY <3>2, <2>1, <1>8
    <2> QED
      BY <2>2, <2>3
  <1>15. CASE Load(c)
    <2>1. /\ client'[c].at = "record" /\ client'[c].sess = client[c].sess
          /\ client'[c].op = client[c].op /\ client[c].at = "load"
      BY <1>15, <1>1 DEF Load, Client
    <2> QED
      BY <2>1, <1>2, <1>8 DEF Waited
  <1>16. CASE Store(c)
    <2>1. client[c].at = "record" /\ client[c].sess \in Sessions
      BY <1>2, <1>16 DEF Store
    <2>2. CASE client[c].op = "init"
      <3> DEFINE none == << >>
      <3>1. client' = [client EXCEPT ![c].at = "join", ![c].log = none]
        BY <2>2, <1>16 DEF Store
      <3> HIDE DEF none
      <3>2. /\ client'[c].at = "join" /\ client'[c].sess = client[c].sess
            /\ client'[c].op = client[c].op
        BY <3>1, <1>1 DEF Client
      <3> QED
        BY <3>2, <2>1, <1>8
    <2>3. CASE client[c].op # "init"
      <3>1. Returns(c, client[c].status)
        BY <2>3, <1>16 DEF Store
      <3>2. client'[c].at \in {"idle", "next"}
        BY <2>1, <3>1, <1>1, ReturnsType
      <3> QED
        BY <2>3, <3>2, <1>16 DEF Waited, Tells
    <2> QED
      BY <2>2, <2>3
  <1>17. CASE QuitNext(c)
    <2>1. CASE \E s \in client[c].todo : Lookup(c, s, "quit", "quit")
      BY <2>1, <1>1, <1>5
    <2>2. CASE client' = [client EXCEPT ![c].at = "idle", ![c].op = "none"]
      <3>1. /\ client'[c].at = "idle" /\ client'[c].sess = client[c].sess
            /\ client'[c].status = client[c].status /\ client[c].at = "next"
        BY <2>2, <1>1, <1>17 DEF QuitNext, Client
      <3> QED
        BY <3>1 DEF Waited, ToldEnd
    <2>3. CASE Fails(c, client[c].sess, "error")
      BY <2>3, <1>1, <1>7
    <2>4. CASE \E s \in client[c].todo :
                 client' = [client EXCEPT ![c].at = "kill", ![c].sess = s,
                                          ![c].status = "none"]
      <3>1. client'[c].at = "kill" /\ client'[c].status = "none"
        BY <2>4, <1>1 DEF Client
      <3> QED
        BY <3>1 DEF Waited, ToldEnd
    <2> QED
      BY <1>17, <2>1, <2>2, <2>3, <2>4 DEF QuitNext
  <1>18. CASE Timeout(c)
    <2>1. client'[c].at = "kill" /\ client'[c].status = "timeout"
      BY <1>18, <1>1, TimeoutType
    <2> QED
      BY <2>1 DEF Waited, ToldEnd
  <1>19. CASE Kill(c)
    <2>1. /\ client'[c].at = "drop" /\ client[c].at = "kill"
          /\ client'[c].status = client[c].status
      BY <1>19, <1>1 DEF Kill, Client
    <2> QED
      BY <2>1 DEF Waited, ToldEnd
  <1>20. CASE Drop(c)
    <2>1. /\ Returns(c, client[c].status) /\ client[c].sess \in Sessions
          /\ client[c].status \in {"none", "timeout"}
      BY <1>2, <1>20 DEF Drop, Waited
    <2> QED
      BY <2>1, <1>6
  <1> QED
    BY <1>9, <1>10, <1>11, <1>12, <1>13, <1>14, <1>15, <1>16, <1>17, <1>18,
       <1>19, <1>20
    DEF ClientStep

\* The next-state relation keeps AllWaited.
LEMMA WaitedKept ==
  ASSUME IInv, RInv, AllWaited, [Next]_vars
  PROVE  AllWaited'
  <1>1. TypeOK /\ \A s \in Sessions : thread[s].at = "dead" => thread'[s].at = "dead"
    BY DeadStaysDead DEF IInv
  <1>2. ASSUME NEW d \in Clients, client'[d] = client[d]
        PROVE  Waited(d)'
    <2>1. Waited(d) /\ (client[d].at \notin {"idle", "next"} =>
                          client[d].sess \in Sessions)
      BY <1>1 DEF AllWaited, TypeOK
    <2> QED
      BY <1>1, <1>2, <2>1 DEF Waited
  <1>3. CASE \E s \in Sessions : ThreadStep(s) \/ HandleInterrupt(s)
    <2>1. UNCHANGED client
      BY <1>3, ThreadEffect DEF IInv
    <2> QED
      BY <2>1, <1>2 DEF AllWaited
  <1>4. CASE \E c \in Clients : Begin(c) \/ ClientStep(c) \/ Timeout(c)
    <2>1. PICK c \in Clients : Begin(c) \/ ClientStep(c) \/ Timeout(c)
      BY <1>4
    <2>2. Waited(c)'
      BY <2>1, ActorWaits DEF AllWaited
    <2>3. ASSUME NEW d \in Clients, d # c PROVE Waited(d)'
      <3>1. client'[d] = client[d]
        BY <2>1, <2>3, <1>1, ClientMove DEF IInv
      <3> QED
        BY <3>1, <1>2
    <2> QED
      BY <2>2, <2>3 DEF AllWaited
  <1>5. CASE UNCHANGED vars
    BY <1>5 DEF vars, AllWaited, Waited
  <1> QED
    BY <1>3, <1>4, <1>5 DEF Next

\* What ProofService sees of the sessions, from what it sees of each.
Courses == [s \in Sessions |-> Course(s)]
Flags == [s \in Sessions |-> session[s].flag]
Tellings == [c \in Clients |-> ToldEnd(c)]

\* Only the end of a proof, by the prover or by the cleanup, sets the flag; the
\* thread is alive then.
LEMMA ThreadDecides ==
  ASSUME IInv, NEW s \in Sessions, ThreadStep(s) \/ HandleInterrupt(s),
         session'[s].flag # session[s].flag
  PROVE  Alive(s) /\ Alive(s)' /\ session'[s].flag \in {"proved", "quit"}
  <1>1. /\ session \in [Sessions -> Session] /\ thread \in [Sessions -> Thread]
        /\ session[s] \in Session /\ thread[s] \in Thread
    BY DEF IInv, TypeOK
  <1>2. session'[s].flag \in {"proved", "quit"}
    <2>1. session'[s].flag \in Flag
      BY ThreadType DEF IInv, TypeOK, Session
    <2>2. session[s].flag = "open"
      BY ThreadEffect DEF IInv
    <2> QED
      BY <2>1, <2>2 DEF Flag
  <1>3. End(s) \/ Finish(s)
    <2> SUFFICES ASSUME ~End(s), ~Finish(s)
                 PROVE  session'[s].flag = session[s].flag
      OBVIOUS
    <2> USE <1>1 DEF Session
    <2>1. CASE Show(s)
      BY <2>1 DEF Show
    <2>2. CASE Read(s) \/ PushLast(s)
      BY <2>2 DEF Read, PushLast, Pushed
    <2>3. CASE Clear(s) \/ Take(s) \/ Stay(s) \/ Exit(s) \/ Unwind(s)
      BY <2>3 DEF Clear, Take, Stay, Exit, Unwind
    <2>4. CASE HandleInterrupt(s)
      BY <2>4 DEF HandleInterrupt
    <2> QED
      BY <2>1, <2>2, <2>3, <2>4 DEF ThreadStep
  <1>4. /\ thread[s].at \in {"busy", "finishing"}
        /\ thread'[s].at \in {"finishing", "pushing"}
    BY <1>1, <1>3 DEF End, Finish, Goto, Thread
  <1> QED
    BY <1>2, <1>4 DEF Alive

\* A step of a thread decides the proof, ends it, or is not seen.
LEMMA ThreadServes ==
  ASSUME IInv, [Next]_vars, NEW s \in Sessions,
         ThreadStep(s) \/ HandleInterrupt(s)
  PROVE  Service!Serve \/ UNCHANGED Service!svars
  <1>1. /\ UNCHANGED <<doneSessions, client>>
        /\ \A t \in Sessions : t # s => /\ session'[t] = session[t]
                                        /\ thread'[t] = thread[t]
        /\ thread[s].at # "none" /\ thread'[s].at # "none"
    BY ThreadEffect DEF IInv
  <1>2. /\ \A t \in Sessions : t # s => Course(t)' = Course(t)
        /\ \A t \in Sessions : t # s => session'[t].flag = session[t].flag
        /\ \A d \in Clients : ToldEnd(d)' = ToldEnd(d)
    BY <1>1 DEF Course, Alive, ToldEnd
  <1>3. Tellings' = Tellings
    BY <1>2 DEF Tellings
  <1>4. /\ Courses' = [Courses EXCEPT ![s] = Course(s)']
        /\ Course(s)' = Course(s) => Courses' = Courses
        /\ Flags' = [Flags EXCEPT ![s] = session'[s].flag]
        /\ session'[s].flag = session[s].flag => Flags' = Flags
        /\ Courses[s] = Course(s) /\ Flags[s] = session[s].flag
    <2>1. /\ Courses' = [Courses EXCEPT ![s] = Course(s)']
          /\ Course(s)' = Course(s) => Courses' = Courses
      BY <1>2 DEF Courses
    <2>2. /\ Flags' = [Flags EXCEPT ![s] = session'[s].flag]
          /\ session'[s].flag = session[s].flag => Flags' = Flags
      BY <1>2 DEF Flags
    <2> QED
      BY <2>1, <2>2 DEF Courses, Flags
  <1>5. CASE session'[s].flag # session[s].flag
    <2>1. /\ Course(s) = "running" /\ Course(s)' = "running"
          /\ session'[s].flag \in {"proved", "quit"} /\ session[s].flag = "open"
      BY <1>1, <1>5, ThreadDecides, ThreadEffect DEF Course, IInv
    <2>2. Courses[s] = "running" /\ Flags[s] = "open" /\ Courses' = Courses
      BY <2>1, <1>4
    <2>3. \E v \in {"proved", "quit"} : Flags' = [Flags EXCEPT ![s] = v]
      BY <2>1, <1>4
    <2>4. Service!Decide(s)
      BY <2>2, <2>3, <1>1, <1>3 DEF Service!Decide, Courses, Flags, Tellings
    <2> QED
      BY <2>4 DEF Service!Serve
  <1>6. CASE session'[s].flag = session[s].flag /\ Course(s)' = Course(s)
    <2>1. Courses' = Courses /\ Flags' = Flags
      BY <1>4, <1>6
    <2> QED
      BY <2>1, <1>1, <1>3 DEF Service!svars, Courses, Flags, Tellings
  <1>7. CASE session'[s].flag = session[s].flag /\ Course(s)' # Course(s)
    <2>1. Course(s) = "running" /\ Course(s)' = "over"
      <3>1. thread[s].at = "dead" => thread'[s].at = "dead"
        BY DeadStaysDead
      <3> QED
        BY <3>1, <1>1, <1>7 DEF Course, Alive
    <2>2. /\ Courses[s] = "running" /\ Courses' = [Courses EXCEPT ![s] = "over"]
          /\ Flags' = Flags
      BY <2>1, <1>4, <1>7
    <2>3. Service!Stop(s)
      BY <2>2, <1>1, <1>3 DEF Service!Stop, Courses, Flags, Tellings
    <2> QED
      BY <2>3 DEF Service!Serve
  <1> QED
    BY <1>5, <1>6, <1>7

\* What is stored in *done-sessions* is a list of verdicts.
LEMMA StoreRecords ==
  ASSUME ~Shares, IInv, RInv, NEW c \in Clients, Store(c), Flags' = Flags
  PROVE  /\ client[c].sess \in Sessions
         /\ client[c].status = session[client[c].sess].flag
         /\ Service!Record(client[c].sess)
  <1>1. /\ TypeOK /\ Told /\ client[c].log \in Seq(Record)
        /\ client[c].at = "record" /\ ClientStep(c)
    BY DEF IInv, TypeOK, Client, Store, ClientStep
  <1> DEFINE s == client[c].sess
             e == <<s, client[c].status>>
             q == <<e>> \o client[c].log
  <1>2. /\ s \in Sessions /\ client[c].status \in {"proved", "quit"}
        /\ client[c].status = session[s].flag
    BY <1>1 DEF TypeOK, Told, RInv, Truth
  <1>3. e \in Record /\ e = Service!Final(s) /\ s \in Service!Decided
    BY <1>2 DEF Record, Flag, Service!Final, Service!Decided
  <1>4. doneSessions' = q
    BY DEF Store
  <1> HIDE DEF e
  <1>5. q \in Seq(Record) /\ q # << >> /\ q[1] = e
    <2>1. <<e>> \in Seq(Record) /\ Len(<<e>>) = 1 /\ <<e>>[1] = e
      BY <1>3
    <2>2. q \in Seq(Record) /\ Len(q) = Len(client[c].log) + 1 /\ q[1] = e
      BY <2>1, <1>1, ConcatProperties, LenProperties
    <2>3. Len(client[c].log) \in Nat
      BY <1>1, LenProperties
    <2> QED
      BY <2>2, <2>3, EmptySeq
  <1>6. HoldsIn(q, session')
    BY <1>1, <1>4, TruthKept DEF Truth
  <1> HIDE DEF q
  <1>7. \A i \in 1 .. Len(q) : q[i] \in {Service!Final(p) : p \in Service!Decided}
    <2> SUFFICES ASSUME NEW i \in 1 .. Len(q)
                 PROVE  \E p \in Service!Decided : q[i] = Service!Final(p)
      OBVIOUS
    <2>1. q[i] \in Record /\ q[i][1] \in Sessions
      BY <1>5, RecordType, ElementOfSeq
    <2>2. q[i] = <<q[i][1], q[i][2]>>
      BY <2>1 DEF Record
    <2>3. q[i][2] # "open" /\ q[i][2] = session'[q[i][1]].flag
      BY <1>6 DEF HoldsIn
    <2>4. session'[q[i][1]].flag = session[q[i][1]].flag
      BY <2>1, <1>1, ClientFlags DEF FlagsStay
    <2>5. q[i][1] \in Service!Decided /\ q[i] = Service!Final(q[i][1])
      BY <2>1, <2>2, <2>3, <2>4 DEF Service!Decided, Service!Final
    <2> QED
      BY <2>5
  <1> QED
    BY <1>2, <1>3, <1>4, <1>5, <1>7 DEF Service!Record

\* A step of a client starts a proof, puts its end on record, tells the client
\* of it, or is the client's next call.
LEMMA ClientServes ==
  ASSUME ~Shares, IInv, RInv, AllWaited, [Next]_vars, NEW c \in Clients,
         Begin(c) \/ ClientStep(c) \/ Timeout(c)
  PROVE  Service!Serve \/ UNCHANGED Service!svars
  <1>1. /\ TypeOK /\ Told /\ Birth
        /\ client \in [Clients -> Client] /\ client[c] \in Client
        /\ client[c].status \in Answers
    BY DEF IInv, TypeOK, Client, Answers
  <1>2. /\ \A s \in Sessions : session'[s].flag = session[s].flag
        /\ \A d \in Clients : d # c => client'[d] = client[d]
    BY <1>1, ClientFlags, ClientMove DEF FlagsStay
  <1>3. Flags' = Flags
    BY <1>2 DEF Flags
  <1>4. /\ Tellings' = [Tellings EXCEPT ![c] = ToldEnd(c)']
        /\ ToldEnd(c)' = ToldEnd(c) => Tellings' = Tellings
    <2>1. \A d \in Clients : d # c => ToldEnd(d)' = ToldEnd(d)
      BY <1>2 DEF ToldEnd
    <2> QED
      BY <2>1 DEF Tellings
  <1>5. ~Spawn(c) => Courses' = Courses
    <2> HAVE ~Spawn(c)
    <2>1. \A s \in Sessions : Course(s)' = Course(s)
      BY <1>1, ClientThreads DEF Course, Alive
    <2> QED
      BY <2>1 DEF Courses
  <1>6. /\ Waited(c)
        /\ Tells(c) \/ ToldEnd(c)' = ToldEnd(c) \/ ToldEnd(c)' = << >>
    BY ActorWaits DEF AllWaited
  <1>7. CASE Spawn(c)
    <2>1. PICK s : s = client[c].sess
      OBVIOUS
    <2>2. /\ client[c].at = "spawn" /\ s \in Sessions /\ thread[s].at = "none"
          /\ client'[c].at = "name" /\ UNCHANGED doneSessions
          /\ \E place \in {"showing", "busy"} : Goto(s, place)
      BY <2>1, <1>1, <1>7 DEF Spawn, Birth, TypeOK, Client
    <2>3. Course(s) = "none" /\ Course(s)' = "running"
      BY <2>2, <1>1 DEF Course, Alive, Goto, TypeOK, Thread
    <2>4. \A t \in Sessions : t # s => Course(t)' = Course(t)
      BY <2>2, <1>1 DEF Course, Alive, Goto, TypeOK
    <2>5. Courses[s] = "none" /\ Courses' = [Courses EXCEPT ![s] = "running"]
      BY <2>2, <2>3, <2>4 DEF Courses
    <2>6. Tellings' = Tellings
      BY <2>2, <1>4 DEF ToldEnd
    <2>7. Service!Run(s)
      BY <2>2, <2>5, <2>6, <1>3 DEF Service!Run, Courses, Flags, Tellings
    <2> QED
      BY <2>2, <2>7 DEF Service!Serve
  \* The client is told of the end of the proof of its session.
  <1>8. CASE Tells(c)
    <2>1. PICK s, st : s = client[c].sess /\ st = client[c].status
      OBVIOUS
    <2>2. /\ client[c].at \in {"remove", "record"} /\ s \in Sessions
          /\ Returns(c, st) /\ ~Spawn(c)
          /\ st \in {"proved", "quit"} /\ st = session[s].flag
          /\ thread[s].at = "dead"
      BY <2>1, <1>1, <1>6, <1>8
      DEF Tells, Remove, Store, Spawn, TypeOK, Told, RInv, Truth, Waited
    <2>3. /\ client'[c].at \in {"idle", "next"} /\ client'[c].status = st
          /\ client'[c].sess = s
      BY <2>1, <2>2, <1>1, ReturnsType
    <2>4. Tellings' = [Tellings EXCEPT ![c] = <<s, st>>]
      BY <2>2, <2>3, <1>4 DEF ToldEnd
    <2>5. /\ Courses[s] = "over" /\ Courses' = Courses /\ Flags[s] = st
      BY <2>2, <1>5 DEF Courses, Course, Alive, Flags
    <2>6. Service!Record(s) \/ UNCHANGED doneSessions
      BY <2>1, <1>3, <1>8, StoreRecords DEF Tells, Remove
    <2>7. s \in Service!Decided /\ Service!Final(s) = <<s, st>>
      BY <2>2 DEF Service!Decided, Service!Final
    <2>8. Service!Tell(c, s)
      BY <2>4, <2>5, <2>6, <2>7, <1>3
      DEF Service!Tell, Courses, Flags, Tellings
    <2> QED
      BY <2>2, <2>8 DEF Service!Serve
  \* prover-init puts it on record first.
  <1>9. CASE Store(c) /\ client[c].op = "init"
    <2>1. PICK s : s = client[c].sess
      OBVIOUS
    <2>2. s \in Sessions /\ Service!Record(s) /\ client[c].at = "record"
      BY <2>1, <1>3, <1>9, StoreRecords DEF Store
    <2> DEFINE none == << >>
    <2>3. client' = [client EXCEPT ![c].at = "join", ![c].log = none]
      BY <1>9 DEF Store
    <2> HIDE DEF none
    <2>4. client'[c].at = "join"
      BY <2>3, <1>1 DEF Client
    <2>5. Tellings' = Tellings
      BY <2>2, <2>4, <1>4 DEF ToldEnd
    <2>6. Courses' = Courses
      BY <2>2, <1>5 DEF Spawn
    <2>7. Service!RecordFirst(s)
      BY <2>2, <2>5, <2>6, <1>3 DEF Service!RecordFirst, Courses, Flags, Tellings
    <2> QED
      BY <2>2, <2>7 DEF Service!Serve
  <1>10. CASE ~Spawn(c) /\ ~Tells(c) /\ ~Store(c)
    <2>1. doneSessions' = doneSessions
      BY <1>10, ClientRecords
    <2>2. Tellings' = [Tellings EXCEPT ![c] = << >>] \/ Tellings' = Tellings
      BY <1>4, <1>6, <1>10
    <2>3. CASE Tellings' = [Tellings EXCEPT ![c] = << >>]
      <3>1. Service!NextCall(c)
        BY <2>1, <2>3, <1>3, <1>5, <1>10
        DEF Service!NextCall, Service!Untold, Courses, Flags, Tellings
      <3> QED
        BY <3>1 DEF Service!Serve
    <2>4. CASE Tellings' = Tellings
      BY <2>1, <2>4, <1>3, <1>5, <1>10 DEF Service!svars, Courses, Flags, Tellings
    <2> QED
      BY <2>2, <2>3, <2>4
  <1> QED
    BY <1>7, <1>8, <1>9, <1>10 DEF Tells

\* The sessions implement the abstract service, for any number of clients and
\* sessions, each stepped by the client that has made it, whoever interrupts,
\* quits or kills them and whatever updates of the two lists are lost: a proof
\* is decided at most once, and what is on record of it and what a client is
\* told of its end is what was decided (ImplementsProofService).
THEOREM ServiceImplemented ==
  ASSUME ~Shares
  PROVE  Spec => ImplementsProofService
  <1>1. Init => AllWaited
    <2> SUFFICES ASSUME Init, NEW c \in Clients PROVE Waited(c)
      BY DEF AllWaited
    <2>1. client[c].at = "idle"
      BY DEF Init, Idle
    <2> QED
      BY <2>1 DEF Waited
  <1>2. IInv /\ RInv /\ AllWaited /\ [Next]_vars => AllWaited'
    BY WaitedKept
  <1>3. Init => Service!Start
    <2> SUFFICES ASSUME Init PROVE Service!Start
      OBVIOUS
    <2>1. /\ \A s \in Sessions : Course(s) = "none" /\ session[s].flag = "open"
          /\ \A c \in Clients : ToldEnd(c) = << >>
          /\ doneSessions = << >>
      BY DEF Init, Course, ToldEnd, Idle, NewSession
    <2> QED
      BY <2>1 DEF Service!Start, Service!Untold
  <1>4. IInv /\ RInv /\ AllWaited /\ [Next]_vars => [Service!Serve]_(Service!svars)
    <2> SUFFICES ASSUME IInv, RInv, AllWaited, [Next]_vars
                 PROVE  Service!Serve \/ UNCHANGED Service!svars
      OBVIOUS
    <2>1. CASE \E s \in Sessions : ThreadStep(s) \/ HandleInterrupt(s)
      BY <2>1, ThreadServes
    <2>2. CASE \E c \in Clients : Begin(c) \/ ClientStep(c) \/ Timeout(c)
      BY <2>2, ClientServes
    <2>3. CASE UNCHANGED vars
      <3>1. /\ \A s \in Sessions : Course(s)' = Course(s)
            /\ \A s \in Sessions : session'[s].flag = session[s].flag
            /\ \A c \in Clients : ToldEnd(c)' = ToldEnd(c)
            /\ doneSessions' = doneSessions
        BY <2>3 DEF vars, Course, Alive, ToldEnd
      <3>2. Courses' = Courses /\ Flags' = Flags /\ Tellings' = Tellings
        BY <3>1 DEF Courses, Flags, Tellings
      <3> QED
        BY <3>1, <3>2 DEF Service!svars, Courses, Flags, Tellings
    <2> QED
      BY <2>1, <2>2, <2>3 DEF Next
  <1> QED
    BY <1>1, <1>2, <1>3, <1>4, Invariance, RecordInvariance, PTL
    DEF Spec, ImplementsProofService, Service!ServiceSpec

=============================================================================
