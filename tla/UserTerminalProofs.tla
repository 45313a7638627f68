-------------------------- MODULE UserTerminalProofs --------------------------
(***************************************************************************)
(* The requests of SuccinixRpc and the lines of UserTerminal, for any      *)
(* number of containers, calls, failures and late answers.                 *)
(*                                                                         *)
(* The invariant of the requests says where the one command file, the      *)
(* result files and the host's directory and environment stand while the   *)
(* chain is at a call.  The terminal only adds calls, so every step of it  *)
(* is one of RpcNext or leaves the requests alone.                         *)
(***************************************************************************)
EXTENDS UserTerminal, SequenceTheorems, TLAPS

Kind == {"run", "cd", "spawn", "ask"}
At == {"queued", "placing", "preparing", "sending", "polling", "answered", "failed"}
Part == {"setCwd", "command"}
JobRecord ==
  [kind : Kind, dir : Dir, at : At, id : Nat, placed : BOOLEAN, env : BOOLEAN,
   tried : BOOLEAN, answer : {<<>>} \cup (Nat \X Part), cwd : Dir \cup {<<>>}]
ResultRecord == [of : Nat \X Part, ok : BOOLEAN, cwd : Dir \cup {<<>>}]
StartRecord == [of : Nat, cwd : Dir \cup {<<>>}, env : Box \cup {None}, late : BOOLEAN]

RpcTypeOK ==
  /\ job \in Seq(JobRecord)
  /\ requestId \in Nat
  /\ cmdFile \in [id : Nat, of : Nat, part : Part \cup {"none"}]
  /\ results \in [DOMAIN results -> ResultRecord]
  /\ envFile \in Box \cup {None}
  /\ host \in [alive : BOOLEAN, cwd : Dir \cup {<<>>}, seen : SUBSET Nat,
               running : SUBSET (Nat \X Nat)]
  /\ started \in Seq(StartRecord)

\* The chain: calls leave the queue in order, one is under way at a time.
Chain == \A j \in Job : job[j].at # "queued" => reached(j)

\* What a call has by the time it is somewhere.
CallShape ==
  \A j \in Job :
    /\ job[j].id <= requestId
    /\ job[j].at = "queued" => job[j].id = None
    /\ job[j].at \in {"polling", "failed"} => job[j].tried
    /\ job[j].at = "answered" => job[j].answer = <<j, "command">> /\ job[j].id \in host.seen
    /\ job[j].placed => job[j].id # None /\ job[j].at \notin {"queued", "placing"}
    /\ job[j].env => job[j].at \in {"sending", "polling"} \cup Settled
    /\ job[j].at = "placing" => job[j].kind # "ask"

\* The ids of the calls increase along the chain.
IdsIncrease ==
  \A i, j \in Job : i < j /\ job[j].id # None => job[i].id < job[j].id

\* The request of a call that is polled for is the one in the file.
FileIsAwaited ==
  \A j \in Job :
    /\ job[j].at = "placing" =>
         /\ job[j].id # None
         /\ cmdFile = [id |-> job[j].id, of |-> j, part |-> "setCwd"]
    /\ job[j].at = "polling" =>
         /\ job[j].id # None
         /\ cmdFile = [id |-> job[j].id, of |-> j, part |-> "command"]

\* The request in the file is the last one sent.
FileShape ==
  cmdFile.id # None =>
    /\ cmdFile.of \in Job /\ cmdFile.part \in Part
    /\ cmdFile.id = job[cmdFile.of].id
    /\ job[cmdFile.of].at # "queued"
    /\ cmdFile.part = "command" => job[cmdFile.of].at \in {"polling"} \cup Settled
    /\ \A i \in Job : i > cmdFile.of => job[i].id = None

\* The results are those of requests the host has read.
ResultShape ==
  /\ DOMAIN results \subseteq host.seen
  /\ \A id \in host.seen : 1 <= id /\ id <= requestId
  /\ cmdFile.id \in DOMAIN results => results[cmdFile.id].of = <<cmdFile.of, cmdFile.part>>

\* A command the host runs is that of a call that is polled for or given up.
RunningShape ==
  \A r \in host.running :
    /\ r[2] \in Job /\ r[1] = job[r[2]].id
    /\ r[1] \in host.seen \ DOMAIN results
    /\ job[r[2]].kind \in {"run", "cd"}
    /\ job[r[2]].at \in {"polling", "failed"}
    /\ cmdFile.id = r[1] => cmdFile.part = "command"

\* The commands that started were read from the file.
StartedShape ==
  \A n \in 1..Len(started) :
    LET j == started[n].of IN
    /\ j \in Job /\ job[j].id \in host.seen
    /\ job[j].at \in {"polling"} \cup Settled

\* The host may still read the request in the file.
fresh == cmdFile.id # None /\ cmdFile.id \notin host.seen

\* Where the host is for a call whose directory it took.
OwnDirectory ==
  /\ \A j \in Job : ~givenUp(j) =>
       /\ job[j].placed /\ job[j].at \in {"preparing", "sending"} =>
            host.cwd = job[j].dir /\ ~fresh
       /\ job[j].at = "placing" /\ job[j].id \in DOMAIN results /\ results[job[j].id].ok =>
            host.cwd = job[j].dir
  /\ fresh /\ cmdFile.part = "command" /\ job[cmdFile.of].placed /\ ~givenUp(cmdFile.of) =>
       host.cwd = job[cmdFile.of].dir

\* Whose environment the file holds.
OwnEnvironment ==
  /\ \A j \in Job : job[j].env /\ job[j].at \in {"sending", "polling"} =>
       envFile = job[j].dir[1]
  /\ fresh /\ cmdFile.part = "command" /\ job[cmdFile.of].env =>
       \/ envFile = job[cmdFile.of].dir[1]
       \/ job[cmdFile.of].at = "failed" /\ overwritten(cmdFile.of, envFile)

RpcInv ==
  /\ RpcTypeOK
  /\ Chain /\ CallShape /\ IdsIncrease
  /\ FileIsAwaited /\ FileShape /\ ResultShape /\ RunningShape
  /\ StartedShape /\ InCallOrder
  /\ OwnDirectory /\ OwnEnvironment /\ OwnContext

\* A call joins the chain and nothing else happens, or the client or the host
\* takes a step.
RpcNext ==
  \/ /\ \E kind \in Kind, dir \in Dir : Calls(kind, dir)
     /\ UNCHANGED rest
  \/ \E j \in Job : Proceeds(j)
  \/ HostAnswers \/ HostDies

LEMMA RpcInitInv == RpcInit => RpcInv
<1> SUFFICES ASSUME RpcInit PROVE RpcInv
  OBVIOUS
<1>1. Job = {} /\ Len(started) = 0
  BY DEF RpcInit, Job
<1>2. RpcTypeOK
  BY DEF RpcInit, RpcTypeOK, NoRequest, None
<1>3. Chain /\ CallShape /\ IdsIncrease /\ FileIsAwaited
  BY <1>1 DEF Chain, CallShape, IdsIncrease, FileIsAwaited
<1>4. cmdFile.id = None /\ DOMAIN results = {} /\ host.running = {} /\ host.seen = {}
  BY DEF RpcInit, NoRequest
<1>5. FileShape /\ ResultShape /\ RunningShape
  BY <1>4 DEF FileShape, ResultShape, RunningShape
<1>6. StartedShape /\ InCallOrder /\ OwnContext
  BY <1>1 DEF StartedShape, InCallOrder, OwnContext
<1>7. OwnDirectory /\ OwnEnvironment
  BY <1>1, <1>4 DEF OwnDirectory, OwnEnvironment, fresh
<1> QED BY <1>2, <1>3, <1>5, <1>6, <1>7 DEF RpcInv

-----------------------------------------------------------------------------
(* The chain *)

LEMMA JobTypes ==
  ASSUME RpcTypeOK
  PROVE  /\ Len(job) \in Nat /\ Job = 1..Len(job) /\ DOMAIN job = Job
         /\ \A j \in Job :
              /\ job[j] \in JobRecord
              /\ job[j].kind \in Kind /\ job[j].dir \in Dir /\ job[j].at \in At
              /\ job[j].id \in Nat /\ job[j].placed \in BOOLEAN /\ job[j].env \in BOOLEAN
              /\ job[j].tried \in BOOLEAN /\ job[j].cwd \in Dir \cup {<<>>}
              /\ job[j].dir[1] \in Box
<1>1. job \in Seq(JobRecord) /\ Len(job) \in Nat /\ Job = 1..Len(job) /\ DOMAIN job = Job
  BY DEF RpcTypeOK, Job
<1>2. ASSUME NEW j \in Job PROVE job[j] \in JobRecord
  BY <1>1
<1>3. ASSUME NEW r \in JobRecord
      PROVE  /\ r.kind \in Kind /\ r.dir \in Dir /\ r.at \in At
             /\ r.id \in Nat /\ r.placed \in BOOLEAN /\ r.env \in BOOLEAN
             /\ r.tried \in BOOLEAN /\ r.cwd \in Dir \cup {<<>>}
  BY DEF JobRecord
<1>4. \A d \in Dir : d[1] \in Box
  BY DEF Dir
<1> QED BY <1>1, <1>2, <1>3, <1>4

\* The call the chain is at: those before it have settled, those behind it wait.
current(k) == k \in Job /\ reached(k) /\ job[k].at \notin Settled

LEMMA AroundCurrent ==
  ASSUME RpcInv, NEW k \in Job, current(k)
  PROVE  \A i \in Job : /\ i < k => job[i].at \in Settled
                        /\ i > k => job[i].at = "queued" /\ job[i].id = None
                                    /\ ~job[i].placed /\ ~job[i].env
<1>1. RpcTypeOK /\ Chain /\ CallShape
  BY DEF RpcInv
<1>2. ASSUME NEW i \in Job, i < k PROVE job[i].at \in Settled
  BY <1>1, <1>2, JobTypes DEF current, reached
<1>3. ASSUME NEW i \in Job, i > k PROVE job[i].at = "queued"
  BY <1>1, <1>3, JobTypes DEF current, reached, Chain
<1> QED BY <1>1, <1>2, <1>3, JobTypes DEF CallShape, Settled

\* What a call the chain is at may become.
Becomes(k, r) ==
  /\ current(k)
  /\ r \in JobRecord /\ job' = [job EXCEPT ![k] = r]
  /\ r.kind = job[k].kind /\ r.dir = job[k].dir /\ r.at # "queued"
  /\ r.id \in {job[k].id, requestId + 1} /\ requestId' \in {requestId, requestId + 1}
  /\ r.id <= requestId'
  /\ job[k].env => r.env /\ r.placed = job[k].placed
  /\ job[k].at = "polling" =>
       r.at \in Settled /\ r.placed = job[k].placed /\ r.env = job[k].env /\ r.id = job[k].id
  /\ UNCHANGED <<host, started>>

LEMMA BecomesEffect ==
  ASSUME RpcInv, NEW k, NEW r, Becomes(k, r)
  PROVE  /\ k \in Job /\ Job' = Job /\ job' \in Seq(JobRecord) /\ Len(job') = Len(job)
         /\ job'[k] = r /\ \A i \in Job : i # k => job'[i] = job[i]
         /\ \A i \in Job : i <= k => (reached(i)' <=> reached(i)) /\ (givenUp(i)' <=> givenUp(i))
         /\ \A i \in Job, b \in Box : overwritten(i, b) => overwritten(i, b)'
<1>0. RpcTypeOK
  BY DEF RpcInv
<1>1. k \in Job /\ job \in Seq(JobRecord) /\ r \in JobRecord /\ job' = [job EXCEPT ![k] = r]
  BY <1>0 DEF Becomes, current, RpcTypeOK
<1>2. /\ job' \in Seq(JobRecord) /\ Len(job') = Len(job) /\ Job' = Job
      /\ job'[k] = r /\ \A i \in Job : i # k => job'[i] = job[i]
  BY <1>1 DEF Job
<1>3. ASSUME NEW i \in Job, i <= k PROVE (reached(i)' <=> reached(i)) /\ (givenUp(i)' <=> givenUp(i))
  <2>1. \A h \in 1..(i - 1) : h \in Job /\ job'[h] = job[h]
    BY <1>0, <1>1, <1>2, <1>3, JobTypes
  <2> QED BY <2>1 DEF reached, givenUp
<1>4. ASSUME NEW i \in Job, NEW b \in Box, overwritten(i, b) PROVE overwritten(i, b)'
  <2>1. PICK h \in Job : h > i /\ ~job[h].placed /\ job[h].env /\ b = job[h].dir[1]
    BY <1>4 DEF overwritten
  <2>2. ~job'[h].placed /\ job'[h].env /\ b = job'[h].dir[1]
    BY <1>2, <2>1 DEF Becomes
  <2> QED BY <1>2, <2>1, <2>2 DEF overwritten
<1> QED BY <1>1, <1>2, <1>3, <1>4

\* What such a step keeps whatever else it does.
LEMMA ClientKeeps ==
  ASSUME RpcInv, NEW k, NEW r, Becomes(k, r)
  PROVE  Chain' /\ IdsIncrease' /\ StartedShape' /\ InCallOrder' /\ OwnContext'
<1>0. /\ RpcTypeOK /\ Chain /\ CallShape /\ IdsIncrease /\ StartedShape /\ InCallOrder /\ OwnContext
  BY DEF RpcInv
<1>1. /\ k \in Job /\ Job' = Job /\ job'[k] = r /\ \A i \in Job : i # k => job'[i] = job[i]
      /\ \A i \in Job : i <= k => (reached(i)' <=> reached(i)) /\ (givenUp(i)' <=> givenUp(i))
      /\ \A i \in Job, b \in Box : overwritten(i, b) => overwritten(i, b)'
  BY BecomesEffect
<1>2. \A i \in Job : /\ i < k => job[i].at \in Settled
                     /\ i > k => job[i].at = "queued" /\ job[i].id = None
  BY <1>1, AroundCurrent DEF Becomes
<1>3. Job = 1..Len(job) /\ Len(job) \in Nat /\ requestId \in Nat /\ \A i \in Job : job[i].id \in Nat
  BY <1>0, JobTypes DEF RpcTypeOK
<1>4. Chain'
  <2> SUFFICES ASSUME NEW i \in Job, job'[i].at # "queued" PROVE reached(i)'
    BY <1>1 DEF Chain
  <2>1. i <= k
    BY <1>1, <1>2, <1>3
  <2>2. reached(i)
    BY <1>0, <1>1 DEF Chain, Becomes, current
  <2> QED BY <1>1, <2>1, <2>2
<1>5. IdsIncrease'
  BY <1>0, <1>1, <1>2, <1>3 DEF IdsIncrease, CallShape, Becomes, None
<1>6. UNCHANGED <<host, started>>
  BY DEF Becomes
<1>7. ASSUME NEW n \in 1..Len(started)
      PROVE  LET j == started[n].of IN
             /\ j \in Job /\ j <= k
             /\ job'[j].at \in {"polling"} \cup Settled
             /\ job'[j].id = job[j].id /\ job'[j].dir = job[j].dir
             /\ job'[j].placed = job[j].placed /\ job'[j].env = job[j].env
  BY <1>0, <1>1, <1>2, <1>3 DEF StartedShape, Becomes, current, Settled
<1>8. StartedShape' /\ InCallOrder'
  BY <1>0, <1>1, <1>6, <1>7 DEF StartedShape, InCallOrder
<1>9. ASSUME NEW e, NEW j, NEW n \in 1..Len(started), e = started[n], j = e.of
      PROVE  /\ job'[j].placed /\ ~givenUp(j)' => e.cwd = job'[j].dir
             /\ job'[j].env => e.env = job'[j].dir[1] \/ (e.late /\ overwritten(j, e.env)')
  <2>1. /\ job[j].placed /\ ~givenUp(j) => e.cwd = job[j].dir
        /\ job[j].env => e.env = job[j].dir[1] \/ (e.late /\ overwritten(j, e.env))
    BY <1>0, <1>9 DEF OwnContext
  <2>2. overwritten(j, e.env) => e.env \in Box
    BY <1>0, JobTypes DEF overwritten
  <2>3. j \in Job /\ j <= k /\ job'[j].dir = job[j].dir
        /\ job'[j].placed = job[j].placed /\ job'[j].env = job[j].env
    BY <1>7, <1>9
  <2>4. givenUp(j)' <=> givenUp(j)
    BY <1>1, <2>3
  <2>5. overwritten(j, e.env) => overwritten(j, e.env)'
    BY <1>1, <2>2, <2>3
  <2> QED BY <2>1, <2>3, <2>4, <2>5
<1>10. OwnContext'
  BY <1>6, <1>9 DEF OwnContext, givenUp, overwritten
<1> QED BY <1>4, <1>5, <1>8, <1>10

-----------------------------------------------------------------------------
(* The steps of the client *)

\* What the proofs of the steps of a call start from.
LEMMA AtCurrent ==
  ASSUME RpcInv, NEW k, NEW r, Becomes(k, r)
  PROVE  /\ RpcTypeOK /\ CallShape /\ IdsIncrease /\ FileIsAwaited /\ FileShape /\ ResultShape
         /\ RunningShape /\ OwnDirectory /\ OwnEnvironment
         /\ Chain' /\ IdsIncrease' /\ StartedShape' /\ InCallOrder' /\ OwnContext'
         /\ k \in Job /\ Job' = Job /\ job' \in Seq(JobRecord)
         /\ job'[k] = r /\ \A i \in Job : i # k => job'[i] = job[i]
         /\ \A i \in Job : i <= k => (givenUp(i)' <=> givenUp(i))
         /\ \A i \in Job, b \in Box : overwritten(i, b) => overwritten(i, b)'
         /\ \A i \in Job : /\ i # k => job[i].at \in Settled \cup {"queued"}
                           /\ i < k => job[i].at \in Settled
                           /\ i > k => job[i].at = "queued" /\ job[i].id = None
                                       /\ ~job[i].placed /\ ~job[i].env
         /\ job[k].at \notin Settled
         /\ requestId \in Nat /\ \A i \in Job : i \in Nat /\ job[i].id \in Nat /\ job[i].dir[1] \in Box
         /\ host' = host /\ started' = started
<1>1. /\ RpcTypeOK /\ CallShape /\ IdsIncrease /\ FileIsAwaited /\ FileShape /\ ResultShape
      /\ RunningShape /\ OwnDirectory /\ OwnEnvironment
  BY DEF RpcInv
<1>2. current(k) /\ k \in Job /\ job[k].at \notin Settled /\ host' = host /\ started' = started
  BY DEF Becomes, current
<1>3. requestId \in Nat /\ \A i \in Job : i \in Nat /\ job[i].id \in Nat /\ job[i].dir[1] \in Box
  BY <1>1, JobTypes DEF RpcTypeOK
<1>4. \A i \in Job : i # k => i < k \/ i > k
  BY <1>2, <1>3
<1> QED BY <1>1, <1>2, <1>3, <1>4, BecomesEffect, ClientKeeps, AroundCurrent

\* Sends and SendFails: the node of k sends its next request.
SentTo(k) == IF piece(k) = "setCwd" THEN "placing" ELSE "polling"

LEMMA DueIsCurrent ==
  ASSUME RpcInv, NEW k \in Job, due(k)
  PROVE  /\ current(k) /\ job[k].at \in {"queued", "sending"} /\ piece(k) \in Part
         /\ piece(k) = "setCwd" => job[k].at = "queued" /\ job[k].kind # "ask"
         /\ job[k].at = "queued" => ~job[k].placed /\ ~job[k].env
<1>1. Chain /\ CallShape
  BY DEF RpcInv
<1>2. reached(k)
  BY <1>1 DEF due, Chain
<1>3. ~job[k].placed \/ job[k].at # "queued"
  BY <1>1 DEF CallShape
<1>4. ~job[k].env \/ job[k].at # "queued"
  BY <1>1 DEF CallShape, Settled
<1>5. CASE job[k].at = "queued" /\ job[k].kind # "ask"
  BY <1>2, <1>3, <1>4, <1>5 DEF piece, current, due, Settled, Part
<1>6. CASE ~(job[k].at = "queued" /\ job[k].kind # "ask")
  <2>1. piece(k) = "command"
    BY <1>6 DEF piece
  <2> QED BY <1>2, <1>3, <1>4, <2>1 DEF current, due, Settled, Part
<1> QED BY <1>5, <1>6

LEMMA SendsKeeps == ASSUME RpcInv, NEW k \in Job, Sends(k) PROVE RpcInv'
<1> DEFINE tries == job[k].tried \/ piece(k) = "command"
           r == [job[k] EXCEPT !.at = SentTo(k), !.id = requestId + 1, !.tried = tries]
<1>1. /\ due(k)
      /\ cmdFile' = [id |-> requestId + 1, of |-> k, part |-> piece(k)]
      /\ requestId' = requestId + 1
      /\ UNCHANGED <<results, envFile, host, started>>
  BY DEF Sends
<1>2. /\ job[k].at \in {"queued", "sending"} /\ piece(k) \in Part
      /\ piece(k) = "setCwd" => job[k].at = "queued" /\ job[k].kind # "ask"
      /\ job[k].at = "queued" => ~job[k].placed /\ ~job[k].env
      /\ current(k)
  BY <1>1, DueIsCurrent
<1>3. RpcTypeOK /\ job[k] \in JobRecord /\ requestId \in Nat
  BY JobTypes DEF RpcInv, RpcTypeOK
<1>3a. job' = [job EXCEPT ![k] = r]
  BY <1>3 DEF Sends, SentTo, RpcTypeOK
<1>4. /\ r \in JobRecord /\ r.kind = job[k].kind /\ r.dir = job[k].dir /\ r.at = SentTo(k)
      /\ r.id = requestId + 1 /\ r.placed = job[k].placed /\ r.env = job[k].env
      /\ r.tried = tries /\ r.answer = job[k].answer
      /\ piece(k) = "command" => r.tried
  <2>1. tries \in BOOLEAN /\ (piece(k) = "command" => tries)
    OBVIOUS
  <2>2. SentTo(k) \in At /\ requestId + 1 \in Nat
    BY <1>3 DEF SentTo, At
  <2> HIDE DEF tries
  <2> QED BY <1>3, <2>1, <2>2 DEF JobRecord
<1> HIDE DEF r, tries
<1>6. Becomes(k, r)
  BY <1>1, <1>2, <1>3, <1>4, <1>3a DEF Becomes, SentTo
<1>7. /\ CallShape /\ FileIsAwaited /\ FileShape /\ ResultShape
      /\ RunningShape /\ OwnDirectory /\ OwnEnvironment
      /\ Chain' /\ IdsIncrease' /\ StartedShape' /\ InCallOrder' /\ OwnContext'
      /\ Job' = Job /\ job' \in Seq(JobRecord)
      /\ job'[k] = r /\ \A i \in Job : i # k => job'[i] = job[i]
      /\ \A i \in Job : i <= k => (givenUp(i)' <=> givenUp(i))
      /\ \A i \in Job : /\ i # k => job[i].at \in Settled \cup {"queued"}
                        /\ i > k => job[i].at = "queued" /\ job[i].id = None
      /\ \A i \in Job : i \in Nat /\ job[i].id \in Nat
  BY <1>6, AtCurrent
<1>8. requestId + 1 \notin host.seen /\ requestId + 1 \notin DOMAIN results /\ requestId + 1 # None
  BY <1>3, <1>7 DEF ResultShape, RpcTypeOK, None
<1>9. RpcTypeOK'
  BY <1>1, <1>2, <1>3, <1>7 DEF RpcTypeOK, Part
<1>10. CallShape'
  <2>1. ASSUME NEW j \in Job, j # k
        PROVE  /\ job'[j] = job[j] /\ job[j].id <= requestId'
    BY <1>1, <1>3, <1>7, <2>1 DEF CallShape
  <2> QED BY <1>1, <1>2, <1>3, <1>4, <1>7, <1>8, <2>1, SMTT(30) DEF CallShape, SentTo, Settled, Part
<1>11. FileIsAwaited'
  BY <1>1, <1>2, <1>4, <1>7, <1>8 DEF FileIsAwaited, SentTo, Settled, Part
<1>12. FileShape'
  BY <1>1, <1>2, <1>4, <1>7, <1>8 DEF FileShape, SentTo, Settled, Part
<1>13. ResultShape'
  BY <1>1, <1>3, <1>7, <1>8 DEF ResultShape, RpcTypeOK
<1>14. RunningShape'
  BY <1>1, <1>2, <1>3, <1>7, <1>8, SMTT(30) DEF RunningShape, RpcTypeOK
<1>15. OwnDirectory'
  <2>1. ASSUME NEW i \in Job
        PROVE  /\ ~(job'[i].at \in {"preparing", "sending"})
               /\ ~(job'[i].at = "placing" /\ job'[i].id \in DOMAIN results)
    BY <1>4, <1>7, <1>8 DEF Settled, SentTo
  <2>2. ASSUME piece(k) = "command", job[k].placed, ~givenUp(k) PROVE host.cwd = job[k].dir
    BY <1>2, <1>7, <2>2 DEF OwnDirectory
  <2>3. givenUp(k)' <=> givenUp(k)
    BY <1>7
  <2> QED BY <1>1, <1>4, <1>7, <2>1, <2>2, <2>3 DEF OwnDirectory, givenUp
<1>16. OwnEnvironment'
  BY <1>1, <1>2, <1>4, <1>7 DEF OwnEnvironment, SentTo, Settled
<1> QED BY <1>7, <1>9, <1>10, <1>11, <1>12, <1>13, <1>14, <1>15, <1>16 DEF RpcInv

LEMMA SendFailsKeeps == ASSUME RpcInv, NEW k \in Job, SendFails(k) PROVE RpcInv'
<1> DEFINE to == IF piece(k) = "setCwd" THEN "preparing" ELSE "failed"
           tries == job[k].tried \/ piece(k) = "command"
           r == [job[k] EXCEPT !.at = to, !.tried = tries]
<1>1. /\ due(k)
      /\ cmdFile' \in {NoRequest, cmdFile}
      /\ requestId' = requestId + 1
      /\ UNCHANGED <<results, envFile, host, started>>
  BY DEF SendFails
<1>2. /\ job[k].at \in {"queued", "sending"} /\ piece(k) \in Part
      /\ piece(k) = "setCwd" => job[k].at = "queued" /\ job[k].kind # "ask"
      /\ job[k].at = "queued" => ~job[k].placed /\ ~job[k].env
      /\ current(k)
  BY <1>1, DueIsCurrent
<1>3. RpcTypeOK /\ job[k] \in JobRecord /\ requestId \in Nat /\ job[k].id \in Nat
  BY JobTypes DEF RpcInv, RpcTypeOK
<1>3a. job' = [job EXCEPT ![k] = r]
  BY <1>3 DEF SendFails, RpcTypeOK
<1>4. /\ r \in JobRecord /\ r.kind = job[k].kind /\ r.dir = job[k].dir /\ r.at = to
      /\ r.id = job[k].id /\ r.placed = job[k].placed /\ r.env = job[k].env
      /\ r.tried = tries /\ r.answer = job[k].answer
      /\ piece(k) = "command" => r.tried
  <2>1. tries \in BOOLEAN /\ (piece(k) = "command" => tries)
    OBVIOUS
  <2> HIDE DEF tries
  <2> QED BY <1>2, <1>3, <2>1 DEF JobRecord, At
<1> HIDE DEF r, tries
<1>6. Becomes(k, r)
  <2>1. job[k].id <= requestId
    BY DEF RpcInv, CallShape
  <2> QED BY <1>1, <1>2, <1>3, <1>4, <1>3a, <2>1 DEF Becomes
<1>7. /\ CallShape /\ FileIsAwaited /\ FileShape /\ ResultShape
      /\ RunningShape /\ OwnDirectory /\ OwnEnvironment
      /\ Chain' /\ IdsIncrease' /\ StartedShape' /\ InCallOrder' /\ OwnContext'
      /\ Job' = Job /\ job' \in Seq(JobRecord)
      /\ job'[k] = r /\ \A i \in Job : i # k => job'[i] = job[i]
      /\ \A i \in Job : i <= k => (givenUp(i)' <=> givenUp(i))
      /\ \A i \in Job, b \in Box : overwritten(i, b) => overwritten(i, b)'
      /\ \A i \in Job : /\ i # k => job[i].at \in Settled \cup {"queued"}
                        /\ i > k => job[i].at = "queued" /\ job[i].id = None
      /\ \A i \in Job : i \in Nat /\ job[i].id \in Nat
      /\ job[k].dir[1] \in Box
  BY <1>6, AtCurrent
<1>8. cmdFile' = cmdFile \/ cmdFile'.id = None
  BY <1>1 DEF NoRequest
<1>9. RpcTypeOK'
  BY <1>1, <1>3, <1>7 DEF RpcTypeOK, NoRequest, None
<1>10. CallShape'
  BY <1>1, <1>2, <1>3, <1>4, <1>7, SMTT(30) DEF CallShape, Settled, Part
<1>11. FileIsAwaited'
  BY <1>4, <1>7 DEF FileIsAwaited, Settled
<1>12. FileShape'
  BY <1>2, <1>4, <1>7, <1>8 DEF FileShape, Settled
<1>13. ResultShape'
  BY <1>1, <1>3, <1>7, <1>8 DEF ResultShape, RpcTypeOK, None
<1>14. RunningShape'
  <2>1. \A x \in host.running : x[1] # None
    BY <1>7 DEF RunningShape, ResultShape, None
  <2> QED BY <1>1, <1>2, <1>4, <1>7, <1>8, <2>1 DEF RunningShape
<1>15. fresh' /\ cmdFile'.part = "command" =>
         /\ cmdFile' = cmdFile /\ fresh /\ cmdFile.of \in Job /\ cmdFile.of < k
         /\ job'[cmdFile.of] = job[cmdFile.of] /\ (givenUp(cmdFile.of)' <=> givenUp(cmdFile.of))
  <2> SUFFICES ASSUME fresh', cmdFile'.part = "command"
               PROVE  /\ cmdFile' = cmdFile /\ fresh /\ cmdFile.of \in Job /\ cmdFile.of < k
                      /\ job'[cmdFile.of] = job[cmdFile.of]
                      /\ (givenUp(cmdFile.of)' <=> givenUp(cmdFile.of))
    OBVIOUS
  <2>1. cmdFile' = cmdFile /\ fresh
    BY <1>1, <1>8 DEF fresh
  <2>2. cmdFile.of \in Job /\ job[cmdFile.of].at \in {"polling"} \cup Settled
    BY <1>7, <2>1 DEF FileShape, fresh
  <2>3. cmdFile.of < k
    BY <1>2, <1>7, <2>2 DEF Settled
  <2>4. job'[cmdFile.of] = job[cmdFile.of]
    BY <1>7, <2>2, <2>3
  <2>5. (givenUp(cmdFile.of)' <=> givenUp(cmdFile.of))
    BY <1>7, <2>1, <2>2, <2>3
  <2> QED BY <2>1, <2>2, <2>3, <2>4, <2>5
<1>16. OwnDirectory'
  <2>1. ASSUME NEW i \in Job
        PROVE  /\ ~(job'[i].at \in {"preparing", "sending"} /\ job'[i].placed)
               /\ job'[i].at # "placing"
    BY <1>2, <1>4, <1>7 DEF Settled
  <2> QED BY <1>1, <1>7, <1>15, <2>1 DEF OwnDirectory
<1>17. OwnEnvironment'
  <2>1. \A i \in Job : job'[i].at \notin {"sending", "polling"}
    BY <1>4, <1>7 DEF Settled
  <2>2. ASSUME NEW i \in Job, overwritten(i, envFile) PROVE overwritten(i, envFile)'
    <3>1. envFile \in Box
      BY <1>3, <2>2, JobTypes DEF overwritten
    <3>2. ASSUME NEW b \in Box, b = envFile PROVE overwritten(i, b)'
      BY <1>7, <2>2, <3>2
    <3> QED BY <1>1, <3>1, <3>2 DEF overwritten
  <2> QED BY <1>1, <1>7, <1>15, <2>1, <2>2 DEF OwnEnvironment
<1> QED BY <1>7, <1>9, <1>10, <1>11, <1>12, <1>13, <1>14, <1>16, <1>17 DEF RpcInv

\* A call that is polled for is the one the chain is at.
LEMMA UnderWay ==
  ASSUME RpcInv, NEW k \in Job, job[k].at \in {"placing", "preparing", "sending", "polling"}
  PROVE  current(k)
  BY DEF RpcInv, Chain, current, Settled

LEMMA ReceivesKeeps == ASSUME RpcInv, NEW k \in Job, Receives(k) PROVE RpcInv'
<1> DEFINE id == job[k].id
           to == IF job[k].at = "placing" THEN "preparing" ELSE "answered"
           placed == IF job[k].at = "placing" THEN results[id].ok ELSE job[k].placed
           answer == IF job[k].at = "polling" THEN results[id].of ELSE job[k].answer
           r == [job[k] EXCEPT !.at = to, !.placed = placed, !.answer = answer,
                               !.cwd = results[id].cwd]
<1>1. /\ job[k].at \in {"placing", "polling"} /\ id \in DOMAIN results
      /\ results' = [i \in DOMAIN results \ {id} |-> results[i]]
      /\ UNCHANGED <<requestId, cmdFile, envFile, host, started>>
  BY DEF Receives
<1>2. current(k)
  BY <1>1, UnderWay
<1>3. /\ RpcTypeOK /\ job[k] \in JobRecord /\ requestId \in Nat /\ job[k].id \in Nat
      /\ results[id] \in ResultRecord /\ job[k].placed \in BOOLEAN /\ job[k].answer \in {<<>>} \cup (Nat \X Part)
  BY <1>1, JobTypes DEF RpcInv, RpcTypeOK, JobRecord
<1>4. job' = [job EXCEPT ![k] = r]
  BY <1>3 DEF Receives, RpcTypeOK
<1>5. /\ r \in JobRecord /\ r.kind = job[k].kind /\ r.dir = job[k].dir /\ r.at = to
      /\ r.id = job[k].id /\ r.placed = placed /\ r.env = job[k].env
      /\ r.tried = job[k].tried /\ r.answer = answer
  <2>1. /\ to \in At /\ placed \in BOOLEAN /\ answer \in {<<>>} \cup (Nat \X Part)
        /\ results[id].cwd \in Dir \cup {<<>>}
    BY <1>3 DEF At, ResultRecord
  <2> HIDE DEF to, placed, answer
  <2> QED BY <1>3, <2>1 DEF JobRecord
<1> HIDE DEF r
<1>6. Becomes(k, r)
  <2>1. job[k].id <= requestId /\ (job[k].env => job[k].at # "placing")
    BY DEF RpcInv, CallShape, Settled
  <2> QED BY <1>1, <1>2, <1>3, <1>4, <1>5, <2>1 DEF Becomes, Settled
<1>7. /\ CallShape /\ FileIsAwaited /\ FileShape /\ ResultShape
      /\ RunningShape /\ OwnDirectory /\ OwnEnvironment
      /\ Chain' /\ IdsIncrease' /\ StartedShape' /\ InCallOrder' /\ OwnContext'
      /\ Job' = Job /\ job' \in Seq(JobRecord)
      /\ job'[k] = r /\ \A i \in Job : i # k => job'[i] = job[i]
      /\ \A i \in Job : i <= k => (givenUp(i)' <=> givenUp(i))
      /\ \A i \in Job : i # k => job[i].at \in Settled \cup {"queued"}
      /\ \A i \in Job : i \in Nat /\ job[i].id \in Nat
  BY <1>6, AtCurrent
<1>8. /\ cmdFile.id = id /\ cmdFile.of = k /\ id # None /\ id \in host.seen
      /\ cmdFile.part = IF job[k].at = "placing" THEN "setCwd" ELSE "command"
      /\ results[id].of = <<k, cmdFile.part>>
  BY <1>1, <1>7 DEF FileIsAwaited, ResultShape
<1>9. DOMAIN results' = DOMAIN results \ {id} /\ \A i \in DOMAIN results' : results'[i] = results[i]
  BY <1>1
<1>10. RpcTypeOK'
  BY <1>1, <1>3, <1>7, <1>9 DEF RpcTypeOK
<1>11. CallShape'
  BY <1>1, <1>3, <1>5, <1>7, <1>8, SMTT(30) DEF CallShape, Settled
<1>12. FileIsAwaited' /\ FileShape'
  BY <1>1, <1>5, <1>7 DEF FileIsAwaited, FileShape, Settled
<1>13. ResultShape'
  BY <1>1, <1>7, <1>9 DEF ResultShape
<1>14. RunningShape'
  <2>1. \A x \in host.running : x[2] # k
    BY <1>1, <1>7 DEF RunningShape
  <2> QED BY <1>1, <1>7, <1>9, <2>1 DEF RunningShape
<1>15. ~fresh'
  BY <1>1, <1>8 DEF fresh
<1>16. OwnDirectory'
  <2>1. ASSUME NEW j \in Job, ~givenUp(j)'
        PROVE  /\ job'[j].placed /\ job'[j].at \in {"preparing", "sending"} => host.cwd = job'[j].dir
               /\ job'[j].at # "placing"
    BY <1>1, <1>5, <1>7, <2>1 DEF OwnDirectory, Settled
  <2> QED BY <1>1, <1>7, <1>15, <2>1 DEF OwnDirectory
<1>17. OwnEnvironment'
  BY <1>1, <1>5, <1>7, <1>15 DEF OwnEnvironment, Settled
<1> QED BY <1>7, <1>10, <1>11, <1>12, <1>13, <1>14, <1>16, <1>17 DEF RpcInv

LEMMA TimesOutKeeps == ASSUME RpcInv, NEW k \in Job, TimesOut(k) PROVE RpcInv'
<1> DEFINE to == IF job[k].at = "placing" THEN "preparing" ELSE "failed"
           r == [job[k] EXCEPT !.at = to]
<1>1. /\ job[k].at \in {"placing", "polling"} /\ job[k].id \notin DOMAIN results
      /\ UNCHANGED <<requestId, cmdFile, results, envFile, host, started>>
  BY DEF TimesOut, late
<1>2. current(k)
  BY <1>1, UnderWay
<1>3. RpcTypeOK /\ job[k] \in JobRecord /\ requestId \in Nat /\ job[k].id \in Nat
  BY JobTypes DEF RpcInv, RpcTypeOK
<1>4. job' = [job EXCEPT ![k] = r]
  BY <1>3 DEF TimesOut, RpcTypeOK
<1>5. /\ r \in JobRecord /\ r.kind = job[k].kind /\ r.dir = job[k].dir /\ r.at = to
      /\ r.id = job[k].id /\ r.placed = job[k].placed /\ r.env = job[k].env
      /\ r.tried = job[k].tried /\ r.answer = job[k].answer
  <2>1. to \in At
    BY DEF At
  <2> HIDE DEF to
  <2> QED BY <1>3, <2>1 DEF JobRecord
<1> HIDE DEF r
<1>6. Becomes(k, r)
  <2>1. job[k].id <= requestId
    BY DEF RpcInv, CallShape
  <2> QED BY <1>1, <1>2, <1>3, <1>4, <1>5, <2>1 DEF Becomes, Settled
<1>7. /\ CallShape /\ FileIsAwaited /\ FileShape /\ ResultShape
      /\ RunningShape /\ OwnDirectory /\ OwnEnvironment
      /\ Chain' /\ IdsIncrease' /\ StartedShape' /\ InCallOrder' /\ OwnContext'
      /\ Job' = Job /\ job' \in Seq(JobRecord)
      /\ job'[k] = r /\ \A i \in Job : i # k => job'[i] = job[i]
      /\ \A i \in Job : i <= k => (givenUp(i)' <=> givenUp(i))
      /\ \A i \in Job : i # k => job[i].at \in Settled \cup {"queued"}
      /\ \A i \in Job : i \in Nat /\ job[i].id \in Nat
  BY <1>6, AtCurrent
<1>8. /\ cmdFile.id = job[k].id /\ cmdFile.of = k /\ job[k].id # None
      /\ cmdFile.part = IF job[k].at = "placing" THEN "setCwd" ELSE "command"
  BY <1>1, <1>7 DEF FileIsAwaited
<1>9. RpcTypeOK'
  BY <1>1, <1>3, <1>7 DEF RpcTypeOK
<1>10. CallShape'
  BY <1>1, <1>3, <1>5, <1>7 DEF CallShape, Settled
<1>11. FileIsAwaited' /\ FileShape'
  BY <1>1, <1>5, <1>7 DEF FileIsAwaited, FileShape, Settled
<1>12. ResultShape' /\ RunningShape'
  BY <1>1, <1>5, <1>7 DEF ResultShape, RunningShape
<1>13. givenUp(k)' <=> givenUp(k)
  BY <1>7
<1>14. OwnDirectory'
  <2>1. ASSUME NEW j \in Job
        PROVE  /\ ~(job'[j].placed /\ job'[j].at \in {"preparing", "sending"})
               /\ job'[j].at # "placing"
    BY <1>1, <1>5, <1>7 DEF CallShape, Settled
  <2>2. fresh /\ cmdFile.part = "command" /\ job[k].placed /\ ~givenUp(k) => host.cwd = job[k].dir
    BY <1>7, <1>8 DEF OwnDirectory
  <2> QED BY <1>1, <1>5, <1>7, <1>8, <1>13, <2>1, <2>2 DEF OwnDirectory, fresh, givenUp
<1>15. OwnEnvironment'
  BY <1>1, <1>5, <1>7, <1>8 DEF OwnEnvironment, fresh, Settled
<1> QED BY <1>7, <1>9, <1>10, <1>11, <1>12, <1>14, <1>15 DEF RpcInv

LEMMA WritesEnvKeeps == ASSUME RpcInv, NEW k \in Job, WritesEnv(k) PROVE RpcInv'
<1>1. /\ job[k].at = "preparing"
      /\ UNCHANGED <<requestId, cmdFile, results, host, started>>
  BY DEF WritesEnv
<1>2. current(k) /\ ~job[k].env
  BY <1>1, UnderWay DEF RpcInv, CallShape, Settled
<1>3. /\ RpcTypeOK /\ job[k] \in JobRecord /\ requestId \in Nat /\ job[k].id \in Nat
      /\ job[k].env \in BOOLEAN /\ job[k].dir[1] \in Box
  BY JobTypes DEF RpcInv, RpcTypeOK
<1>4. PICK w \in BOOLEAN :
        /\ job' = [job EXCEPT ![k].at = "sending", ![k].env = w]
        /\ w => envFile' = job[k].dir[1]
        /\ ~w => envFile' = envFile
  <2>1. CASE envFile' = job[k].dir[1] /\ job' = [job EXCEPT ![k].at = "sending", ![k].env = TRUE]
    BY <2>1
  <2>2. CASE envFile' = envFile /\ job' = [job EXCEPT ![k].at = "sending"]
    <3>1. job' = [job EXCEPT ![k].at = "sending", ![k].env = FALSE]
      BY <1>2, <1>3, <2>2 DEF RpcTypeOK, JobRecord
    <3> QED BY <2>2, <3>1
  <2> QED BY <2>1, <2>2 DEF WritesEnv
<1> DEFINE r == [job[k] EXCEPT !.at = "sending", !.env = w]
<1>5. job' = [job EXCEPT ![k] = r]
  BY <1>3, <1>4 DEF RpcTypeOK
<1>6. /\ r \in JobRecord /\ r.kind = job[k].kind /\ r.dir = job[k].dir /\ r.at = "sending"
      /\ r.id = job[k].id /\ r.placed = job[k].placed /\ r.env = w
      /\ r.tried = job[k].tried /\ r.answer = job[k].answer
  BY <1>3 DEF JobRecord, At
<1> HIDE DEF r
<1>7. Becomes(k, r)
  <2>1. job[k].id <= requestId
    BY DEF RpcInv, CallShape
  <2> QED BY <1>1, <1>2, <1>3, <1>5, <1>6, <2>1 DEF Becomes
<1>8. /\ CallShape /\ FileIsAwaited /\ FileShape /\ ResultShape
      /\ RunningShape /\ OwnDirectory /\ OwnEnvironment
      /\ Chain' /\ IdsIncrease' /\ StartedShape' /\ InCallOrder' /\ OwnContext'
      /\ Job' = Job /\ job' \in Seq(JobRecord)
      /\ job'[k] = r /\ \A i \in Job : i # k => job'[i] = job[i]
      /\ \A i \in Job : i <= k => (givenUp(i)' <=> givenUp(i))
      /\ \A i \in Job, b \in Box : overwritten(i, b) => overwritten(i, b)'
      /\ \A i \in Job : /\ i # k => job[i].at \in Settled \cup {"queued"}
                        /\ i > k => job[i].at = "queued" /\ job[i].id = None
      /\ \A i \in Job : i \in Nat /\ job[i].id \in Nat
  BY <1>7, AtCurrent
<1>9. RpcTypeOK'
  BY <1>1, <1>3, <1>4, <1>8 DEF RpcTypeOK
<1>10. CallShape'
  BY <1>1, <1>6, <1>8 DEF CallShape, Settled
<1>11. FileIsAwaited' /\ FileShape'
  BY <1>1, <1>6, <1>8 DEF FileIsAwaited, FileShape, Settled
<1>12. ResultShape' /\ RunningShape'
  BY <1>1, <1>6, <1>8 DEF ResultShape, RunningShape
\* An unread command in the file is one that was given up, of a call before.
<1>13. fresh /\ cmdFile.part = "command" =>
         /\ cmdFile.of \in Job /\ cmdFile.of < k /\ job[cmdFile.of].at = "failed" /\ ~job[k].placed
  <2> SUFFICES ASSUME fresh, cmdFile.part = "command"
               PROVE  /\ cmdFile.of \in Job /\ cmdFile.of < k /\ job[cmdFile.of].at = "failed"
                      /\ ~job[k].placed
    OBVIOUS
  <2>1. /\ cmdFile.of \in Job /\ job[cmdFile.of].at \in {"polling"} \cup Settled
        /\ cmdFile.id = job[cmdFile.of].id /\ \A i \in Job : i > cmdFile.of => job[i].id = None
    BY <1>8 DEF FileShape, fresh
  <2>2. cmdFile.of # k /\ job[cmdFile.of].at \in Settled
    BY <1>1, <1>8, <2>1 DEF Settled
  <2>3. cmdFile.of < k
    BY <1>8, <2>1, <2>2 DEF Settled
  <2>4. job[cmdFile.of].at = "failed"
    BY <1>8, <2>1, <2>2 DEF CallShape, fresh, Settled
  <2>5. ~job[k].placed
    BY <1>8, <2>1, <2>3 DEF CallShape
  <2> QED BY <2>1, <2>3, <2>4, <2>5
<1>14. OwnDirectory'
  <2>1. ASSUME NEW j \in Job, ~givenUp(j)'
        PROVE  /\ job'[j].placed /\ job'[j].at \in {"preparing", "sending"} =>
                    host.cwd = job'[j].dir /\ ~fresh
               /\ job'[j].at # "placing"
    BY <1>1, <1>6, <1>8, <2>1 DEF OwnDirectory, Settled
  <2>2. fresh /\ cmdFile.part = "command" =>
          /\ job'[cmdFile.of] = job[cmdFile.of]
          /\ (givenUp(cmdFile.of)' <=> givenUp(cmdFile.of))
    <3> SUFFICES ASSUME fresh, cmdFile.part = "command"
                 PROVE  /\ job'[cmdFile.of] = job[cmdFile.of]
                        /\ (givenUp(cmdFile.of)' <=> givenUp(cmdFile.of))
      OBVIOUS
    <3>1. ASSUME NEW i \in Job, i = cmdFile.of, i < k
          PROVE  job'[i] = job[i] /\ (givenUp(i)' <=> givenUp(i))
      BY <1>8, <3>1
    <3> QED BY <1>1, <1>13, <3>1 DEF givenUp
  <2> QED BY <1>1, <1>8, <2>1, <2>2 DEF OwnDirectory, fresh, givenUp
<1>15. OwnEnvironment'
  <2>1. ASSUME NEW j \in Job, job'[j].env, job'[j].at \in {"sending", "polling"}
        PROVE  envFile' = job'[j].dir[1]
    BY <1>4, <1>6, <1>8, <2>1, ZenonT(40) DEF Settled
  <2>2. ASSUME NEW c \in Job, c = cmdFile.of, fresh, cmdFile.part = "command", job'[c].env
        PROVE  \/ envFile' = job'[c].dir[1]
               \/ job'[c].at = "failed" /\ overwritten(c, envFile)'
    <3>1. c < k /\ job'[c] = job[c] /\ job[c].at = "failed" /\ ~job[k].placed
      BY <1>8, <1>13, <2>2
    <3>2. CASE w
      <4>1. k \in Job' /\ k > c /\ ~job'[k].placed /\ job'[k].dir = job[k].dir
        BY <1>6, <1>8, <3>1
      <4>2. job'[k].env
        BY <1>6, <1>8, <3>2
      <4>3. envFile' = job'[k].dir[1] /\ job'[c].at = "failed"
        BY <1>4, <3>1, <3>2, <4>1
      <4> QED BY <4>1, <4>2, <4>3 DEF overwritten
    <3>3. CASE ~w
      <4>1. envFile = job[c].dir[1] \/ overwritten(c, envFile)
        BY <1>8, <2>2, <3>1 DEF OwnEnvironment
      <4>2. ASSUME overwritten(c, envFile) PROVE overwritten(c, envFile)'
        <5>1. envFile \in Box
          BY <1>3, <4>2, JobTypes DEF overwritten
        <5>2. ASSUME NEW b \in Box, b = envFile PROVE overwritten(c, b)'
          BY <1>8, <4>2, <5>2
        <5> QED BY <1>4, <3>3, <5>1, <5>2 DEF overwritten
      <4> QED BY <1>4, <3>1, <3>3, <4>1, <4>2
    <3> QED BY <3>2, <3>3
  <2>3. fresh' /\ cmdFile'.part = "command" => cmdFile.of \in Job /\ fresh /\ cmdFile.part = "command"
    BY <1>1, <1>13 DEF fresh
  <2> QED BY <1>1, <1>8, <2>1, <2>2, <2>3 DEF OwnEnvironment, overwritten
<1> QED BY <1>8, <1>9, <1>10, <1>11, <1>12, <1>14, <1>15 DEF RpcInv

\* A call that joins the chain disturbs none that is there.
LEMMA JoinKeeps ==
  ASSUME RpcInv, NEW kind \in Kind, NEW dir \in Dir, Calls(kind, dir), UNCHANGED rest
  PROVE  RpcInv'
<1> DEFINE n == Len(job) + 1
<1>1. /\ RpcTypeOK /\ Chain /\ CallShape /\ IdsIncrease /\ FileIsAwaited /\ FileShape /\ ResultShape
      /\ RunningShape /\ StartedShape /\ InCallOrder /\ OwnDirectory /\ OwnEnvironment /\ OwnContext
  BY DEF RpcInv
<1>2. UNCHANGED <<requestId, cmdFile, results, envFile, host, started>>
  BY DEF rest
<1>3. Len(job) \in Nat /\ Job = 1..Len(job) /\ requestId \in Nat /\ \A j \in Job : job[j].id \in Nat
  BY <1>1, JobTypes DEF RpcTypeOK
<1>4. NewJob(kind, dir) \in JobRecord
  BY DEF NewJob, JobRecord, At, None
<1>5. /\ job' \in Seq(JobRecord) /\ Job' = Job \cup {n} /\ n \notin Job
      /\ \A j \in Job : j < n /\ job'[j] = job[j]
      /\ job'[n].at = "queued" /\ job'[n].id = None /\ ~job'[n].placed /\ ~job'[n].env
  <2>1. job' = Append(job, NewJob(kind, dir))
    BY DEF Calls
  <2>2. job' \in Seq(JobRecord) /\ Len(job') = n /\ job'[n] = NewJob(kind, dir)
        /\ \A j \in Job : job'[j] = job[j]
    BY <1>1, <1>3, <1>4, <2>1, AppendProperties DEF RpcTypeOK
  <2> QED BY <1>3, <2>2 DEF Job, NewJob
<1> HIDE DEF n
<1>6. ASSUME NEW j \in Job
      PROVE  /\ (reached(j)' <=> reached(j)) /\ (givenUp(j)' <=> givenUp(j))
             /\ \A b \in Box : overwritten(j, b) => overwritten(j, b)'
  <2>1. \A h \in 1..(j - 1) : h \in Job /\ job'[h] = job[h]
    BY <1>3, <1>5
  <2>2. ASSUME NEW b \in Box, overwritten(j, b) PROVE overwritten(j, b)'
    BY <1>5, <2>2 DEF overwritten
  <2> QED BY <2>1, <2>2 DEF reached, givenUp
<1>7. RpcTypeOK'
  BY <1>1, <1>2, <1>5 DEF RpcTypeOK
<1>8. Chain'
  BY <1>1, <1>5, <1>6 DEF Chain
<1>9. CallShape' /\ FileIsAwaited'
  BY <1>1, <1>2, <1>3, <1>5 DEF CallShape, FileIsAwaited, Settled, None
<1>10. IdsIncrease' /\ FileShape'
  BY <1>1, <1>2, <1>3, <1>5, SMTT(30) DEF IdsIncrease, FileShape
<1>11. ResultShape' /\ RunningShape' /\ StartedShape' /\ InCallOrder'
  BY <1>1, <1>2, <1>5 DEF ResultShape, RunningShape, StartedShape, InCallOrder
<1>12. OwnDirectory'
  <2>1. ASSUME NEW j \in Job', ~givenUp(j)'
        PROVE  /\ job'[j].placed /\ job'[j].at \in {"preparing", "sending"} =>
                    host.cwd = job'[j].dir /\ ~fresh
               /\ job'[j].at = "placing" /\ job'[j].id \in DOMAIN results /\ results[job'[j].id].ok =>
                    host.cwd = job'[j].dir
    BY <1>1, <1>5, <1>6, <2>1 DEF OwnDirectory
  <2>2. ASSUME NEW c \in Job, c = cmdFile.of, fresh, cmdFile.part = "command", job'[c].placed, ~givenUp(c)'
        PROVE  host.cwd = job'[c].dir
    BY <1>1, <1>5, <1>6, <2>2 DEF OwnDirectory
  <2>3. fresh => cmdFile.of \in Job
    BY <1>1 DEF FileShape, fresh
  <2> QED BY <1>2, <2>1, <2>2, <2>3 DEF OwnDirectory, fresh, givenUp
<1>13. OwnEnvironment'
  <2>1. ASSUME NEW c \in Job, c = cmdFile.of, fresh, cmdFile.part = "command", job'[c].env
        PROVE  \/ envFile = job'[c].dir[1]
               \/ job'[c].at = "failed" /\ overwritten(c, envFile)
    BY <1>1, <1>5, <2>1 DEF OwnEnvironment
  <2>2. fresh => cmdFile.of \in Job
    BY <1>1 DEF FileShape, fresh
  <2>3. \A j \in Job' : job'[j].env /\ job'[j].at \in {"sending", "polling"} => envFile = job'[j].dir[1]
    BY <1>1, <1>5 DEF OwnEnvironment
  <2> QED BY <1>2, <1>5, <2>1, <2>2, <2>3 DEF OwnEnvironment, fresh, overwritten
<1>14. OwnContext'
  <2>1. ASSUME NEW e, NEW j, NEW m \in 1..Len(started), e = started[m], j = e.of
        PROVE  /\ job'[j].placed /\ ~givenUp(j)' => e.cwd = job'[j].dir
               /\ job'[j].env => e.env = job'[j].dir[1] \/ (e.late /\ overwritten(j, e.env)')
    <3>1. j \in Job
      BY <1>1, <2>1 DEF StartedShape
    <3>2. /\ job[j].placed /\ ~givenUp(j) => e.cwd = job[j].dir
          /\ job[j].env => e.env = job[j].dir[1] \/ (e.late /\ overwritten(j, e.env))
      BY <1>1, <2>1 DEF OwnContext
    <3>3. overwritten(j, e.env) => overwritten(j, e.env)'
      BY <1>1, <1>6, <3>1, JobTypes DEF overwritten
    <3> QED BY <1>5, <1>6, <3>1, <3>2, <3>3
  <2> QED BY <1>2, <2>1 DEF OwnContext, givenUp, overwritten
<1> QED BY <1>7, <1>8, <1>9, <1>10, <1>11, <1>12, <1>13, <1>14 DEF RpcInv

-----------------------------------------------------------------------------
(* The steps of the host *)

LEMMA ResultOfEffect ==
  ASSUME RpcTypeOK, NEW id \in Nat, id \notin DOMAIN results, NEW j \in Nat, NEW part \in Part,
         NEW ok \in BOOLEAN, NEW cwd \in Dir \cup {<<>>},
         results' = resultOf(id, j, part, ok, cwd)
  PROVE  /\ DOMAIN results' = DOMAIN results \cup {id}
         /\ results' \in [DOMAIN results' -> ResultRecord]
         /\ results'[id].of = <<j, part>> /\ results'[id].ok = ok
         /\ \A x \in DOMAIN results : results'[x] = results[x]
<1> DEFINE rec == [of |-> <<j, part>>, ok |-> ok, cwd |-> cwd]
<1>1. rec \in ResultRecord /\ rec.of = <<j, part>> /\ rec.ok = ok
  BY DEF ResultRecord
<1> HIDE DEF rec
<1>2. results' = [x \in DOMAIN results \cup {id} |-> IF x = id THEN rec ELSE results[x]]
  BY DEF resultOf, rec
<1> QED BY <1>1, <1>2 DEF RpcTypeOK

\* The host changes neither the calls nor the file.
LEMMA HostKeeps ==
  ASSUME RpcInv, UNCHANGED <<job, requestId, cmdFile, envFile>>, host.seen \subseteq host'.seen
  PROVE  /\ Job' = Job /\ Chain' /\ CallShape' /\ IdsIncrease' /\ FileIsAwaited' /\ FileShape'
         /\ \A j : (givenUp(j)' <=> givenUp(j))
         /\ \A j, b : (overwritten(j, b)' <=> overwritten(j, b))
  BY DEF RpcInv, Job, Chain, CallShape, IdsIncrease, FileIsAwaited, FileShape,
         givenUp, overwritten, reached

\* What an unread request is.
LEMMA MailIs ==
  ASSUME RpcInv, mail
  PROVE  /\ fresh /\ cmdFile.of \in Job /\ cmdFile.of \in Nat /\ cmdFile.id \in Nat
         /\ cmdFile.part \in Part
         /\ cmdFile.id = job[cmdFile.of].id /\ 1 <= cmdFile.id /\ cmdFile.id <= requestId
         /\ cmdFile.id \notin DOMAIN results
         /\ \A x \in host.running : x[1] # cmdFile.id /\ x[2] < cmdFile.of
         /\ cmdFile.part = "command" => job[cmdFile.of].at \in {"polling", "failed"}
         /\ \A n \in 1..Len(started) : started[n].of < cmdFile.of
         /\ \A j \in Job : job[j].at = "placing" => job[j].id \notin DOMAIN results
         /\ \A j \in Job : ~givenUp(j) => ~(job[j].placed /\ job[j].at \in {"preparing", "sending"})
<1>1. /\ RpcTypeOK /\ CallShape /\ FileIsAwaited /\ FileShape /\ ResultShape /\ RunningShape
      /\ StartedShape /\ OwnDirectory
  BY DEF RpcInv
<1>2. fresh /\ cmdFile.of \in Job /\ cmdFile.part \in Part /\ cmdFile.id = job[cmdFile.of].id
      /\ \A j \in Job : j > cmdFile.of => job[j].id = None
  BY <1>1 DEF mail, fresh, FileShape
<1>3. /\ cmdFile.of \in Nat /\ cmdFile.id \in Nat /\ cmdFile.id # 0 /\ requestId \in Nat
      /\ cmdFile.id <= requestId /\ \A j \in Job : j \in Nat
  BY <1>1, <1>2, JobTypes DEF RpcTypeOK, CallShape, fresh, None
<1>4. cmdFile.id \notin DOMAIN results
  BY <1>1, <1>2 DEF ResultShape, fresh
<1>5. ASSUME NEW x \in host.running PROVE x[1] # cmdFile.id /\ x[2] < cmdFile.of
  <2>1. x[2] \in Job /\ x[1] = job[x[2]].id /\ x[1] \in host.seen /\ x[1] # None
    BY <1>1 DEF RunningShape, ResultShape, None
  <2>2. x[1] # cmdFile.id
    BY <1>2, <2>1 DEF fresh
  <2>3. x[2] # cmdFile.of /\ ~(x[2] > cmdFile.of)
    BY <1>2, <2>1, <2>2
  <2> QED BY <1>3, <2>1, <2>2, <2>3
<1>6. cmdFile.part = "command" => job[cmdFile.of].at \in {"polling", "failed"}
  BY <1>1, <1>2 DEF FileShape, CallShape, fresh, Settled
<1>7. ASSUME NEW n \in 1..Len(started) PROVE started[n].of < cmdFile.of
  <2>1. started[n].of \in Job /\ job[started[n].of].id \in host.seen
    BY <1>1 DEF StartedShape
  <2>2. job[started[n].of].id # None
    BY <1>1, <2>1 DEF ResultShape, None
  <2>3. started[n].of # cmdFile.of /\ ~(started[n].of > cmdFile.of)
    BY <1>2, <2>1, <2>2 DEF fresh
  <2> QED BY <1>3, <2>1, <2>3
<1>8. \A j \in Job : job[j].at = "placing" => job[j].id \notin DOMAIN results
  BY <1>1, <1>4 DEF FileIsAwaited
<1>9. \A j \in Job : ~givenUp(j) => ~(job[j].placed /\ job[j].at \in {"preparing", "sending"})
  BY <1>1, <1>2 DEF OwnDirectory
<1> QED BY <1>2, <1>3, <1>4, <1>5, <1>6, <1>7, <1>8, <1>9

LEMMA HostTypes ==
  ASSUME RpcTypeOK
  PROVE  /\ host.alive \in BOOLEAN /\ host.cwd \in Dir \cup {<<>>} /\ host.seen \in SUBSET Nat
         /\ host.running \in SUBSET (Nat \X Nat)
  BY DEF RpcTypeOK

\* HostPlaces, and HostAsked with no directory: the request is answered at once.
LEMMA AnswersKeeps ==
  ASSUME RpcInv, mail, NEW ok \in BOOLEAN, NEW cwd \in Dir \cup {<<>>},
         host' = reads([host EXCEPT !.cwd = cwd]),
         results' = answered(ok),
         UNCHANGED <<client, cmdFile, envFile, started>>,
         cmdFile.part = "setCwd" /\ ok => cwd = job[cmdFile.of].dir,
         cmdFile.part = "command" => cwd = host.cwd
  PROVE  RpcInv'
<1>1. /\ RpcTypeOK /\ CallShape /\ IdsIncrease /\ FileIsAwaited /\ FileShape /\ ResultShape /\ RunningShape
      /\ StartedShape /\ InCallOrder /\ OwnDirectory /\ OwnEnvironment /\ OwnContext
  BY DEF RpcInv
<1>2. UNCHANGED <<job, requestId, cmdFile, envFile, started>>
  BY DEF client
<1>3. /\ host' \in [alive : BOOLEAN, cwd : Dir \cup {<<>>}, seen : SUBSET Nat,
                    running : SUBSET (Nat \X Nat)]
      /\ host'.cwd = cwd /\ host'.seen = host.seen \cup {cmdFile.id} /\ host'.running = host.running
  <2>1. cmdFile.id \in Nat
    BY MailIs
  <2> QED BY <1>1, <2>1 DEF RpcTypeOK, reads
<1>4. /\ Job' = Job /\ Chain' /\ CallShape' /\ IdsIncrease' /\ FileIsAwaited' /\ FileShape'
      /\ \A j : (givenUp(j)' <=> givenUp(j))
      /\ \A j, b : (overwritten(j, b)' <=> overwritten(j, b))
  BY <1>2, <1>3, HostKeeps
<1>5. /\ DOMAIN results' = DOMAIN results \cup {cmdFile.id}
      /\ results' \in [DOMAIN results' -> ResultRecord]
      /\ results'[cmdFile.id].of = <<cmdFile.of, cmdFile.part>> /\ results'[cmdFile.id].ok = ok
      /\ \A x \in DOMAIN results : results'[x] = results[x]
  <2>1. results' = resultOf(cmdFile.id, cmdFile.of, cmdFile.part, ok, <<>>)
    BY DEF answered
  <2>2. /\ cmdFile.id \in Nat /\ cmdFile.of \in Nat /\ cmdFile.part \in Part
        /\ cmdFile.id \notin DOMAIN results
    BY MailIs
  <2>3. <<>> \in Dir \cup {<<>>}
    OBVIOUS
  <2> QED BY ONLY <1>1, <2>1, <2>2, <2>3, ok \in BOOLEAN, ResultOfEffect, ZenonT(40)
<1>6. RpcTypeOK'
  BY <1>1, <1>2, <1>3, <1>5 DEF RpcTypeOK
<1>7. ResultShape' /\ RunningShape' /\ StartedShape' /\ InCallOrder'
  BY <1>1, <1>2, <1>3, <1>4, <1>5, MailIs
     DEF ResultShape, RunningShape, StartedShape, InCallOrder
<1>8. ~fresh'
  BY <1>2, <1>3 DEF fresh
<1>9. OwnDirectory'
  <2>1. ASSUME NEW j \in Job, job[j].at = "placing", ~givenUp(j), job[j].id \in DOMAIN results',
               results'[job[j].id].ok
        PROVE  cwd = job[j].dir
    <3>1. cmdFile.of = j /\ cmdFile.part = "setCwd" /\ cmdFile.id = job[j].id
      BY <1>1, <2>1 DEF FileIsAwaited
    <3> QED BY <1>5, <2>1, <3>1
  <2>2. ASSUME NEW j \in Job, ~givenUp(j), job[j].placed, job[j].at \in {"preparing", "sending"}
        PROVE  FALSE
    BY <2>2, MailIs
  <2> QED BY <1>2, <1>3, <1>4, <1>8, <2>1, <2>2 DEF OwnDirectory
<1>10. OwnEnvironment'
  BY <1>1, <1>2, <1>4, <1>8 DEF OwnEnvironment
<1>11. OwnContext'
  BY <1>1, <1>2, <1>4 DEF OwnContext, givenUp, overwritten
<1> QED BY <1>4, <1>6, <1>7, <1>9, <1>10, <1>11 DEF RpcInv

LEMMA HostAnswersOnce ==
  ASSUME RpcInv, HostAsked \/ \E ok \in BOOLEAN : HostPlaces(ok)
  PROVE  RpcInv'
<1>1. RpcTypeOK /\ host.cwd \in Dir \cup {<<>>} /\ host = [host EXCEPT !.cwd = host.cwd]
  BY HostTypes DEF RpcInv, RpcTypeOK
<1>2. CASE HostAsked
  <2>1. /\ mail /\ host' = reads([host EXCEPT !.cwd = host.cwd]) /\ results' = answered(TRUE)
        /\ UNCHANGED <<client, cmdFile, envFile, started>> /\ cmdFile.part # "setCwd"
    BY <1>1, <1>2 DEF HostAsked
  <2> QED BY <1>1, <2>1, AnswersKeeps
<1>3. ASSUME NEW ok \in BOOLEAN, HostPlaces(ok) PROVE RpcInv'
  <2> DEFINE cwd == IF ok THEN job[cmdFile.of].dir ELSE host.cwd
  <2>1. /\ mail /\ cmdFile.part = "setCwd"
        /\ host' = reads([host EXCEPT !.cwd = cwd])
        /\ results' = answered(ok)
        /\ UNCHANGED <<client, cmdFile, envFile, started>>
    BY <1>3 DEF HostPlaces
  <2>2. cwd \in Dir \cup {<<>>} /\ (ok => cwd = job[cmdFile.of].dir)
    BY <1>1, <2>1, MailIs, JobTypes
  <2> HIDE DEF cwd
  <2> QED BY <2>1, <2>2, AnswersKeeps
<1> QED BY <1>2, <1>3

LEMMA HostStartsKeeps == ASSUME RpcInv, HostStarts PROVE RpcInv'
<1> DEFINE j == cmdFile.of
           d == IF job[j].kind = "spawn" THEN host.cwd ELSE job[j].dir
           ran == IF job[j].kind = "spawn" THEN host.running
                  ELSE host.running \cup {<<cmdFile.id, j>>}
           e == [of |-> j, cwd |-> d, env |-> envFile, late |-> job[j].at = "failed"]
<1>1. /\ RpcTypeOK /\ CallShape /\ IdsIncrease /\ FileIsAwaited /\ FileShape /\ ResultShape /\ RunningShape
      /\ StartedShape /\ InCallOrder /\ OwnDirectory /\ OwnEnvironment /\ OwnContext
  BY DEF RpcInv
<1>2. /\ mail /\ cmdFile.part = "command" /\ job[j].kind # "ask"
      /\ started' = Append(started, e)
      /\ host' = reads([host EXCEPT !.cwd = d, !.running = ran])
      /\ results' = IF job[j].kind = "spawn" THEN answered(TRUE) ELSE results
      /\ UNCHANGED <<job, requestId, cmdFile, envFile>>
  BY DEF HostStarts, client
<1>3. /\ fresh /\ j \in Job /\ j \in Nat /\ cmdFile.id \in Nat /\ cmdFile.id = job[j].id
      /\ cmdFile.id # 0 /\ cmdFile.id >= 1 /\ cmdFile.id <= requestId /\ cmdFile.id \notin DOMAIN results
      /\ \A x \in host.running : x[1] # cmdFile.id
      /\ job[j].at \in {"polling", "failed"}
      /\ \A n \in 1..Len(started) : started[n].of < j
      /\ \A i \in Job : job[i].at = "placing" => job[i].id \notin DOMAIN results
      /\ \A i \in Job : ~givenUp(i) => ~(job[i].placed /\ job[i].at \in {"preparing", "sending"})
  BY <1>2, MailIs
<1>4. /\ d \in Dir \cup {<<>>} /\ ran \in SUBSET (Nat \X Nat) /\ host.seen \in SUBSET Nat
      /\ job[j].kind \in Kind /\ envFile \in Box \cup {None}
  BY <1>1, <1>3, HostTypes, JobTypes DEF RpcTypeOK
<1>5. e \in StartRecord /\ e.of = j /\ e.cwd = d /\ e.env = envFile /\ (e.late <=> job[j].at = "failed")
  <2>1. (job[j].at = "failed") \in BOOLEAN
    OBVIOUS
  <2> HIDE DEF d, j
  <2> QED BY <1>3, <1>4, <2>1 DEF StartRecord, j
<1> HIDE DEF e
<1>6. /\ host' \in [alive : BOOLEAN, cwd : Dir \cup {<<>>}, seen : SUBSET Nat,
                    running : SUBSET (Nat \X Nat)]
      /\ host'.cwd = d /\ host'.seen = host.seen \cup {cmdFile.id} /\ host'.running = ran
  <2> HIDE DEF d, ran
  <2> QED BY <1>1, <1>2, <1>3, <1>4 DEF RpcTypeOK, reads
<1>7. /\ Job' = Job /\ Chain' /\ CallShape' /\ IdsIncrease' /\ FileIsAwaited' /\ FileShape'
      /\ \A i : (givenUp(i)' <=> givenUp(i))
      /\ \A i, b : (overwritten(i, b)' <=> overwritten(i, b))
  BY <1>2, <1>6, HostKeeps
<1>8. /\ DOMAIN results' = IF job[j].kind = "spawn" THEN DOMAIN results \cup {cmdFile.id} ELSE DOMAIN results
      /\ results' \in [DOMAIN results' -> ResultRecord]
      /\ job[j].kind = "spawn" => results'[cmdFile.id].of = <<j, "command">>
      /\ \A x \in DOMAIN results : results'[x] = results[x]
  <2>1. CASE job[j].kind = "spawn"
    <3>1. results' = resultOf(cmdFile.id, j, "command", TRUE, <<>>)
      BY <1>2, <2>1 DEF answered
    <3> QED BY <1>1, <1>3, <2>1, <3>1, ResultOfEffect DEF Part
  <2>2. CASE job[j].kind # "spawn"
    BY <1>1, <1>2, <2>2 DEF RpcTypeOK
  <2> QED BY <2>1, <2>2
<1>9. /\ started' \in Seq(StartRecord) /\ Len(started') = Len(started) + 1 /\ Len(started) \in Nat
      /\ started'[Len(started) + 1] = e /\ \A n \in 1..Len(started) : started'[n] = started[n]
  BY <1>1, <1>2, <1>5, AppendProperties DEF RpcTypeOK
<1>10. RpcTypeOK'
  BY <1>1, <1>2, <1>6, <1>8, <1>9 DEF RpcTypeOK
<1>11. ResultShape'
  BY <1>1, <1>2, <1>3, <1>6, <1>8 DEF ResultShape
<1>12. RunningShape'
  <2> SUFFICES ASSUME NEW x \in ran
               PROVE  /\ x[2] \in Job /\ x[1] = job[x[2]].id
                      /\ x[1] \in host'.seen \ DOMAIN results'
                      /\ job[x[2]].kind \in {"run", "cd"}
                      /\ job[x[2]].at \in {"polling", "failed"}
                      /\ cmdFile.id = x[1] => cmdFile.part = "command"
    BY <1>2, <1>6, <1>7 DEF RunningShape
  <2>1. CASE x \in host.running
    BY <1>1, <1>2, <1>3, <1>6, <1>8, <2>1 DEF RunningShape
  <2>2. CASE x \notin host.running
    <3>1. job[j].kind # "spawn" /\ x = <<cmdFile.id, j>>
      BY <2>2
    <3>2. job[j].kind \in {"run", "cd"} /\ x[1] = cmdFile.id /\ x[2] = j
      BY <1>2, <1>4, <3>1 DEF Kind
    <3> HIDE DEF j, ran
    <3> QED BY <1>2, <1>3, <1>6, <1>8, <3>1, <3>2
  <2> QED BY <2>1, <2>2
<1>13. StartedShape' /\ InCallOrder'
  <2>1. \A n \in 1..(Len(started) + 1) : n \in 1..Len(started) \/ started'[n] = e
    BY <1>9
  <2>2. StartedShape'
    <3>1. ASSUME NEW n \in 1..(Len(started) + 1), NEW i, i = started'[n].of
          PROVE  i \in Job /\ job[i].id \in host'.seen /\ job[i].at \in {"polling"} \cup Settled
      <4>1. CASE n \in 1..Len(started)
        BY <1>1, <1>6, <1>9, <3>1, <4>1 DEF StartedShape
      <4>2. CASE n \notin 1..Len(started)
        BY <1>3, <1>5, <1>6, <2>1, <3>1, <4>2 DEF Settled
      <4> QED BY <4>1, <4>2
    <3> QED BY <1>2, <1>7, <1>9, <3>1 DEF StartedShape
  <2>3. ASSUME NEW m \in 1..(Len(started) + 1), NEW n \in 1..(Len(started) + 1), m < n
        PROVE  started'[m].of < started'[n].of
    <3>1. m \in 1..Len(started) /\ started'[m] = started[m]
      BY <1>9, <2>3
    <3>2. CASE n \in 1..Len(started)
      BY <1>1, <1>9, <2>3, <3>1, <3>2 DEF InCallOrder
    <3>3. CASE n \notin 1..Len(started)
      BY <1>3, <1>5, <1>9, <2>1, <2>3, <3>1, <3>3
    <3> QED BY <3>2, <3>3
  <2> QED BY <1>9, <2>2, <2>3 DEF InCallOrder
<1>14. ~fresh'
  BY <1>2, <1>6 DEF fresh
<1>15. OwnDirectory'
  <2>1. \A i \in Job : job[i].at = "placing" => job[i].id \notin DOMAIN results'
    BY <1>1, <1>2, <1>3, <1>8 DEF FileIsAwaited
  <2> QED BY <1>2, <1>3, <1>7, <1>14, <2>1 DEF OwnDirectory
<1>16. OwnEnvironment'
  BY <1>1, <1>2, <1>7, <1>14 DEF OwnEnvironment
<1>17. /\ job[j].placed /\ ~givenUp(j) => d = job[j].dir
       /\ job[j].env => \/ envFile = job[j].dir[1]
                        \/ job[j].at = "failed" /\ overwritten(j, envFile)
  BY <1>1, <1>2, <1>3 DEF OwnDirectory, OwnEnvironment
<1>18. OwnContext'
  <2>1. ASSUME NEW f, NEW i, NEW n \in 1..(Len(started) + 1), f = started'[n], i = f.of
        PROVE  /\ job[i].placed /\ ~givenUp(i) => f.cwd = job[i].dir
               /\ job[i].env => f.env = job[i].dir[1] \/ (f.late /\ overwritten(i, f.env))
    <3>1. CASE n \in 1..Len(started)
      BY <1>1, <1>9, <2>1, <3>1 DEF OwnContext
    <3>2. CASE n \notin 1..Len(started)
      <4>1. f = e /\ i = j
        BY <1>5, <1>9, <2>1, <3>2
      <4> HIDE DEF d, j
      <4> QED BY <1>5, <1>17, <4>1
    <3> QED BY <3>1, <3>2
  <2>2. job' = job /\ Len(started') = Len(started) + 1
    BY <1>2, <1>9
  <2> QED BY <1>7, <2>1, <2>2 DEF OwnContext, givenUp, overwritten
<1> QED BY <1>7, <1>10, <1>11, <1>12, <1>13, <1>15, <1>16, <1>18 DEF RpcInv

LEMMA HostEndsKeeps ==
  ASSUME RpcInv, NEW r \in host.running, NEW ok \in BOOLEAN, HostEnds(r[1], r[2], ok)
  PROVE  RpcInv'
<1> DEFINE id == r[1]
           j == r[2]
           d == IF job[j].kind = "cd" THEN <<job[j].dir[1], "sub">> ELSE job[j].dir
           cwd == IF ok THEN d ELSE host.cwd
<1>1. /\ RpcTypeOK /\ Chain /\ CallShape /\ IdsIncrease /\ FileIsAwaited /\ FileShape /\ ResultShape
      /\ RunningShape /\ StartedShape /\ InCallOrder /\ OwnDirectory /\ OwnEnvironment /\ OwnContext
  BY DEF RpcInv
<1>2. /\ <<id, j>> \in host.running
      /\ host' = [host EXCEPT !.running = @ \ {<<id, j>>}, !.cwd = cwd]
      /\ results' = resultOf(id, j, "command", ok, IF ok THEN d ELSE <<>>)
      /\ UNCHANGED <<job, requestId, cmdFile, envFile, started>>
  BY DEF HostEnds, client
<1>3. /\ j \in Job /\ id = job[j].id /\ id \in host.seen \ DOMAIN results
      /\ job[j].kind \in {"run", "cd"} /\ job[j].at \in {"polling", "failed"}
      /\ cmdFile.id = id => cmdFile.part = "command"
      /\ id \in Nat /\ j \in Nat /\ id # None /\ 1 <= id /\ id <= requestId
  <2>1. id \in Nat /\ j \in Nat
    BY <1>1, HostTypes
  <2> QED BY <1>1, <2>1 DEF RunningShape, ResultShape, None
<1>4. d \in Dir /\ host.cwd \in Dir \cup {<<>>}
  BY <1>1, <1>3, JobTypes, HostTypes DEF Dir
<1> HIDE DEF d
<1>5. /\ host' \in [alive : BOOLEAN, cwd : Dir \cup {<<>>}, seen : SUBSET Nat,
                    running : SUBSET (Nat \X Nat)]
      /\ host'.cwd = cwd /\ host'.seen = host.seen
      /\ host'.running = host.running \ {<<id, j>>}
  <2>1. cwd \in Dir \cup {<<>>}
    BY <1>4
  <2> HIDE DEF cwd
  <2> QED BY <1>1, <1>2, <2>1 DEF RpcTypeOK
<1>6. /\ Job' = Job /\ Chain' /\ CallShape' /\ IdsIncrease' /\ FileIsAwaited' /\ FileShape'
      /\ \A i : (givenUp(i)' <=> givenUp(i))
      /\ \A i, b : (overwritten(i, b)' <=> overwritten(i, b))
  BY <1>2, <1>5, HostKeeps
<1>7. /\ DOMAIN results' = DOMAIN results \cup {id}
      /\ results' \in [DOMAIN results' -> ResultRecord]
      /\ results'[id].of = <<j, "command">>
      /\ \A x \in DOMAIN results : results'[x] = results[x]
  <2>1. (IF ok THEN d ELSE <<>>) \in Dir \cup {<<>>}
    BY <1>4
  <2> QED BY <1>1, <1>2, <1>3, <2>1, ResultOfEffect DEF Part
<1>8. RpcTypeOK'
  BY <1>1, <1>2, <1>5, <1>7 DEF RpcTypeOK
\* A request has one owner.
<1>9. \A i \in Job : job[i].id = id => i = j
  BY <1>1, <1>3, JobTypes DEF IdsIncrease
<1>10. ResultShape'
  <2>1. cmdFile.id = id => cmdFile.of = j /\ cmdFile.part = "command"
    BY <1>1, <1>3, <1>9 DEF FileShape
  <2> QED BY <1>1, <1>2, <1>3, <1>5, <1>7, <2>1 DEF ResultShape
<1>11. RunningShape'
  <2>1. ASSUME NEW x \in host'.running PROVE x[1] # id
    <3>1. x \in host.running /\ x # <<id, j>> /\ x[2] \in Job /\ x[1] = job[x[2]].id
      BY <1>1, <1>5 DEF RunningShape
    <3>2. x \in Nat \X Nat
      BY <1>1, <3>1, HostTypes
    <3>3. x = <<x[1], x[2]>>
      BY <3>2
    <3>4. x[1] = id => x[2] = j
      BY <1>9, <3>1
    <3> HIDE DEF id, j
    <3> QED BY <3>1, <3>3, <3>4
  <2> QED BY <1>1, <1>2, <1>5, <1>6, <1>7, <2>1 DEF RunningShape
<1>12. StartedShape' /\ InCallOrder'
  BY <1>1, <1>2, <1>5, <1>6 DEF StartedShape, InCallOrder
<1>13. OwnContext' /\ OwnEnvironment'
  BY <1>1, <1>2, <1>5, <1>6 DEF OwnContext, OwnEnvironment, fresh, givenUp, overwritten
\* A call before another that left the queue has been given up, if it still runs.
<1>14. ASSUME NEW i \in Job, i # j, job[i].at # "queued", job[i].id # None \/ job[i].at \notin Settled
       PROVE  (i > j /\ givenUp(i)) \/ (i < j /\ job[i].at \in Settled)
  <2>1. i \in Nat /\ (i < j \/ i > j)
    BY <1>1, <1>3, <1>14, JobTypes
  <2>2. CASE i > j
    <3>1. j \in 1..(i - 1) /\ job[j].at \in Settled
      BY <1>1, <1>3, <1>14, <2>1, <2>2, JobTypes DEF Chain, reached
    <3> QED BY <1>3, <2>2, <3>1 DEF givenUp, Settled
  <2>3. CASE i < j
    <3>1. i \in 1..(j - 1) /\ reached(j)
      BY <1>1, <1>3, <2>1, <2>3, JobTypes DEF Chain
    <3> QED BY <2>3, <3>1 DEF reached
  <2> QED BY <2>1, <2>2, <2>3
<1>15. OwnDirectory'
  <2>1. ASSUME NEW i \in Job, ~givenUp(i), job[i].at \in {"placing", "preparing", "sending"}
        PROVE  FALSE
    <3>1. i # j /\ job[i].at \notin Settled /\ job[i].at # "queued"
      BY <1>3, <2>1 DEF Settled
    <3> QED BY <1>3, <1>14, <2>1, <3>1
  <2>2. ASSUME NEW i \in Job, i = cmdFile.of, fresh, cmdFile.part = "command", ~givenUp(i) PROVE FALSE
    <3>1. cmdFile.id = job[i].id /\ job[i].id # None /\ job[i].at # "queued"
          /\ \A h \in Job : h > i => job[h].id = None
      BY <1>1, <2>2 DEF FileShape, fresh
    <3>2. i # j /\ ~(j > i)
      BY <1>3, <2>2, <3>1 DEF fresh
    <3> QED BY <1>3, <1>14, <2>2, <3>1, <3>2
  <2>3. fresh' => fresh /\ cmdFile.of \in Job
    BY <1>1, <1>2, <1>5 DEF fresh, FileShape
  <2> QED BY <1>2, <1>6, <2>1, <2>2, <2>3 DEF OwnDirectory, givenUp
<1> QED BY <1>6, <1>8, <1>10, <1>11, <1>12, <1>13, <1>15 DEF RpcInv

LEMMA HostDiesKeeps == ASSUME RpcInv, HostDies PROVE RpcInv'
<1>1. /\ RpcTypeOK /\ CallShape /\ IdsIncrease /\ FileIsAwaited /\ FileShape /\ ResultShape /\ RunningShape
      /\ StartedShape /\ InCallOrder /\ OwnDirectory /\ OwnEnvironment /\ OwnContext
  BY DEF RpcInv
<1>2. UNCHANGED <<job, requestId, cmdFile, results, envFile, started>>
  BY DEF HostDies, client
<1>3. /\ host' \in [alive : BOOLEAN, cwd : Dir \cup {<<>>}, seen : SUBSET Nat,
                    running : SUBSET (Nat \X Nat)]
      /\ host'.cwd = host.cwd /\ host'.seen = host.seen /\ host'.running = {}
  BY <1>1 DEF HostDies, RpcTypeOK
<1>4. /\ Job' = Job /\ Chain' /\ CallShape' /\ IdsIncrease' /\ FileIsAwaited' /\ FileShape'
  BY <1>2, <1>3, HostKeeps
<1>5. RpcTypeOK'
  BY <1>1, <1>2, <1>3 DEF RpcTypeOK
<1>6. ResultShape' /\ RunningShape' /\ StartedShape' /\ InCallOrder'
  BY <1>1, <1>2, <1>3, <1>4 DEF ResultShape, RunningShape, StartedShape, InCallOrder
<1>7. OwnDirectory' /\ OwnEnvironment' /\ OwnContext'
  BY <1>1, <1>2, <1>3, <1>4 DEF OwnDirectory, OwnEnvironment, OwnContext, fresh, givenUp, overwritten
<1> QED BY <1>4, <1>5, <1>6, <1>7 DEF RpcInv

\* Every step of the client, the host or a caller keeps the invariant.
LEMMA RpcStep == RpcInv /\ [RpcNext]_rpc => RpcInv'
<1> SUFFICES ASSUME RpcInv, [RpcNext]_rpc PROVE RpcInv'
  OBVIOUS
<1>1. ASSUME NEW k \in Job, Proceeds(k) PROVE RpcInv'
  BY <1>1, SendsKeeps, SendFailsKeeps, ReceivesKeeps, TimesOutKeeps, WritesEnvKeeps DEF Proceeds
<1>2. CASE HostAnswers
  BY <1>2, HostAnswersOnce, HostStartsKeeps, HostEndsKeeps DEF HostAnswers
<1>3. CASE HostDies
  BY <1>3, HostDiesKeeps
<1>4. ASSUME NEW kind \in Kind, NEW dir \in Dir, Calls(kind, dir), UNCHANGED rest PROVE RpcInv'
  BY <1>4, JoinKeeps
<1>5. CASE UNCHANGED rpc
  BY <1>5 DEF rpc, RpcInv, RpcTypeOK, Job, Chain, CallShape, IdsIncrease, FileIsAwaited, FileShape,
       ResultShape, RunningShape, StartedShape, InCallOrder, OwnDirectory, OwnEnvironment, OwnContext,
       fresh, givenUp, overwritten, reached
<1> QED BY <1>1, <1>2, <1>3, <1>4, <1>5 DEF RpcNext

-----------------------------------------------------------------------------
(* The terminal *)

Line == {"run", "cd"}
Session ==
  [at : {"none", "ping", "probe", "line", "idle"}, probe : Nat, cwd : Dir, busy : BOOLEAN,
   job : Nat, queue : Seq(Line), disposed : BOOLEAN, typed : Seq(Line), sent : Seq(Line)]

\* The lines of a session: entered, sent and still queued.
LinesOf(s) ==
  IF s.disposed
  THEN s.queue = <<>> /\ \E n \in 0..Len(s.typed) : s.sent = SubSeq(s.typed, 1, n)
  ELSE s.sent \o s.queue = s.typed

TermInv ==
  /\ term \in [Box -> Session]
  /\ \A b \in Box : /\ LinesOf(term[b])
                    /\ term[b].job <= Len(job)
                    /\ ~term[b].busy => term[b].queue = <<>>

LEMMA HeadAndTail ==
  ASSUME NEW s \in Seq(Line), NEW q \in Seq(Line), q # <<>>
  PROVE  /\ Head(q) \in Line /\ Tail(q) \in Seq(Line)
         /\ Append(s, Head(q)) \in Seq(Line)
         /\ Append(s, Head(q)) \o Tail(q) = s \o q
  OBVIOUS

LEMMA EnteredLast ==
  ASSUME NEW s \in Seq(Line), NEW q \in Seq(Line), NEW l \in Line
  PROVE  /\ Append(q, l) \in Seq(Line)
         /\ s \o Append(q, l) = Append(s \o q, l)
         /\ s \o <<>> = s /\ Append(s, l) \o <<>> = Append(s, l)
  OBVIOUS

LEMMA PrefixOf ==
  ASSUME NEW s \in Seq(Line), NEW q \in Seq(Line)
  PROVE  Len(s) \in 0..Len(s \o q) /\ s = SubSeq(s \o q, 1, Len(s))
<1> DEFINE r == SubSeq(s \o q, 1, Len(s))
<1>1. /\ Len(s) \in Nat /\ Len(q) \in Nat /\ s \o q \in Seq(Line) /\ Len(s \o q) = Len(s) + Len(q)
      /\ \A i \in 1..Len(s) : (s \o q)[i] = s[i]
  OBVIOUS
<1>2. r \in Seq(Line) /\ Len(r) = Len(s) /\ \A i \in 1..Len(s) : r[i] = (s \o q)[i]
  BY <1>1
<1> HIDE DEF r
<1>3. s = r
  BY <1>1, <1>2
<1> QED BY <1>1, <1>3 DEF r

\* A session that makes a call: the chain grows, and what is said of its lines
\* must hold of it.
LEMMA AwaitsKeeps ==
  ASSUME RpcInv, TermInv, NEW b \in Box, NEW kind \in Kind, NEW s \in Session,
         LinesOf(s), awaits(b, kind, s)
  PROVE  RpcNext /\ TermInv'
<1>1. /\ Calls(kind, s.cwd) /\ UNCHANGED rest
      /\ term' = [term EXCEPT ![b] = [s EXCEPT !.job = Len(job) + 1, !.busy = TRUE]]
  BY DEF awaits
<1>2. s.cwd \in Dir
  BY DEF Session
<1>3. RpcNext
  BY <1>1, <1>2 DEF RpcNext
<1>4. job \in Seq(JobRecord) /\ Len(job) \in Nat /\ NewJob(kind, s.cwd) \in JobRecord
  BY <1>2 DEF RpcInv, RpcTypeOK, NewJob, JobRecord, At, None
<1>5. Len(job') = Len(job) + 1
  BY <1>1, <1>4, AppendProperties DEF Calls
<1> DEFINE t == [s EXCEPT !.job = Len(job) + 1, !.busy = TRUE]
<1>6. /\ t \in Session /\ t.busy /\ t.job = Len(job) + 1
      /\ t.disposed = s.disposed /\ t.queue = s.queue /\ t.typed = s.typed /\ t.sent = s.sent
  <2> DEFINE n == Len(job) + 1
  <2>1. n \in Nat
    BY <1>4
  <2> HIDE DEF n
  <2>2. [s EXCEPT !.job = n, !.busy = TRUE] \in Session
    BY <2>1 DEF Session
  <2> QED BY <2>1, <2>2 DEF Session, n
<1> HIDE DEF t
<1>7. LinesOf(t)
  BY <1>6 DEF LinesOf
<1>8. term' \in [Box -> Session] /\ term'[b] = t /\ \A c \in Box : c # b => term'[c] = term[c]
  BY <1>1, <1>6 DEF TermInv, t
<1>9. \A c \in Box : term[c].job \in Nat
  BY DEF TermInv, Session
<1>10. TermInv'
  BY <1>4, <1>5, <1>6, <1>7, <1>8, <1>9 DEF TermInv
<1> QED BY <1>3, <1>10

LEMMA SettlesKeeps ==
  ASSUME RpcInv, TermInv, NEW b \in Box, NEW s \in Session, LinesOf(s), settles(b, s)
  PROVE  (RpcNext \/ UNCHANGED rpc) /\ TermInv'
<1>0. s.queue \in Seq(Line) /\ s.sent \in Seq(Line) /\ s.disposed \in BOOLEAN
  BY DEF Session
<1>1. CASE s.queue = <<>> \/ s.disposed
  <2> DEFINE t == [s EXCEPT !.at = "idle", !.busy = FALSE, !.job = None]
  <2>1. term' = [term EXCEPT ![b] = t] /\ UNCHANGED rpc
    BY <1>1 DEF settles
  <2>2. /\ t \in Session /\ t.queue = <<>> /\ t.job = 0
        /\ t.disposed = s.disposed /\ t.queue = s.queue /\ t.typed = s.typed /\ t.sent = s.sent
    <3>1. s.queue = <<>>
      BY <1>1 DEF LinesOf
    <3> QED BY <3>1 DEF Session, None
  <2> HIDE DEF t
  <2>3. LinesOf(t)
    BY <2>2 DEF LinesOf
  <2>4. job' = job /\ Len(job) \in Nat
    BY <2>1 DEF rpc, RpcInv, RpcTypeOK
  <2>5. TermInv'
    BY <2>1, <2>2, <2>3, <2>4 DEF TermInv
  <2> QED BY <2>1, <2>5
<1>2. CASE ~(s.queue = <<>> \/ s.disposed)
  <2> DEFINE l == Head(s.queue)
             t == [s EXCEPT !.queue = Tail(s.queue), !.at = "line", !.sent = Append(s.sent, l)]
  <2>1. /\ l \in Line /\ Tail(s.queue) \in Seq(Line) /\ Append(s.sent, l) \in Seq(Line)
        /\ Append(s.sent, l) \o Tail(s.queue) = s.sent \o s.queue
    BY <1>0, <1>2, HeadAndTail
  <2>2. awaits(b, l, t)
    BY <1>0, <1>2 DEF settles, runs, Session
  <2> HIDE DEF l
  <2>3. /\ t \in Session /\ t.disposed = s.disposed /\ t.typed = s.typed
        /\ t.queue = Tail(s.queue) /\ t.sent = Append(s.sent, l)
    BY <2>1 DEF Session
  <2> HIDE DEF t
  <2>4. LinesOf(t)
    BY <1>2, <2>1, <2>3 DEF LinesOf
  <2> QED BY <2>1, <2>2, <2>3, <2>4, AwaitsKeeps DEF Kind, Line
<1> QED BY <1>1, <1>2

LEMMA SessionStep ==
  ASSUME RpcInv, TermInv, NEW b \in Box,
         \/ Opens(b) \/ Continues(b) \/ Dispose(b) \/ \E line \in Line : Enter(b, line)
  PROVE  (RpcNext \/ UNCHANGED rpc) /\ TermInv'
<1> DEFINE s == term[b]
<1>1. /\ s \in Session /\ LinesOf(s) /\ s.job <= Len(job) /\ (~s.busy => s.queue = <<>>)
      /\ s.typed \in Seq(Line) /\ s.queue \in Seq(Line) /\ s.sent \in Seq(Line) /\ s.job \in Nat
      /\ s.disposed \in BOOLEAN /\ s.busy \in BOOLEAN /\ s.probe \in Nat
  BY DEF TermInv, Session
<1>2. Len(job) \in Nat /\ Len(Probes) \in Nat /\ \A n \in 1..Len(Probes) : Probes[n] \in Kind
  BY ProbesAssumption DEF RpcInv, RpcTypeOK, Kind
<1>3. CASE Opens(b)
  <2>1. awaits(b, "ask", [s EXCEPT !.at = "ping"])
    BY <1>3 DEF Opens
  <2>2. [s EXCEPT !.at = "ping"] \in Session /\ LinesOf([s EXCEPT !.at = "ping"])
    BY <1>1 DEF Session, LinesOf
  <2> QED BY <2>1, <2>2, AwaitsKeeps DEF Kind
<1>4. CASE PingEnds(b)
  <2>1. \/ awaits(b, Probes[1], [s EXCEPT !.at = "probe", !.probe = 1])
        \/ awaits(b, "ask", s) \/ settles(b, s)
    BY <1>4 DEF PingEnds
  <2>2. /\ [s EXCEPT !.at = "probe", !.probe = 1] \in Session
        /\ LinesOf([s EXCEPT !.at = "probe", !.probe = 1])
    BY <1>1 DEF Session, LinesOf
  <2>3. Probes[1] \in Kind /\ "ask" \in Kind
    BY <1>2, ProbesAssumption DEF Kind
  <2> HIDE DEF s
  <2> QED BY <1>1, <2>1, <2>2, <2>3, AwaitsKeeps, SettlesKeeps
<1>5. CASE ProbeEnds(b)
  <2> DEFINE n == s.probe + 1
  <2>1. \/ n <= Len(Probes) /\ awaits(b, Probes[n], [s EXCEPT !.probe = n])
        \/ settles(b, s)
    BY <1>5 DEF ProbeEnds
  <2>2. n \in Nat /\ n >= 1
    BY <1>1
  <2>3. [s EXCEPT !.probe = n] \in Session /\ LinesOf([s EXCEPT !.probe = n])
    BY <1>1, <2>2 DEF Session, LinesOf
  <2>4. n <= Len(Probes) => Probes[n] \in Kind
    BY <1>2, <2>2
  <2> HIDE DEF s, n
  <2> QED BY <1>1, <2>1, <2>3, <2>4, AwaitsKeeps, SettlesKeeps
<1>6. CASE LineEnds(b)
  <2> DEFINE cwd == IF outcome(b).cwd # <<>> THEN outcome(b).cwd ELSE s.cwd
  <2>1. settles(b, [s EXCEPT !.cwd = cwd])
    BY <1>6 DEF LineEnds
  <2>2. cwd \in Dir
    <3>1. s.job \in Job /\ s.cwd \in Dir
      BY <1>1, <1>2, <1>6 DEF LineEnds, over, Job, None, Session
    <3>2. job[s.job].cwd \in Dir \cup {<<>>}
      BY <3>1, JobTypes DEF RpcInv
    <3> QED BY <3>1, <3>2 DEF outcome
  <2> HIDE DEF cwd
  <2>3. [s EXCEPT !.cwd = cwd] \in Session /\ LinesOf([s EXCEPT !.cwd = cwd])
    BY <1>1, <2>2 DEF Session, LinesOf
  <2> QED BY <2>1, <2>3, SettlesKeeps
<1>7. CASE Dispose(b)
  <2> DEFINE t == [s EXCEPT !.disposed = TRUE, !.queue = <<>>]
  <2>1. term' = [term EXCEPT ![b] = t] /\ UNCHANGED rpc /\ ~s.disposed
    BY <1>1, <1>7 DEF Dispose, TermInv
  <2>2. /\ t \in Session /\ t.disposed /\ t.queue = <<>> /\ t.typed = s.typed /\ t.sent = s.sent
        /\ t.job = s.job
    <3>1. <<>> \in Seq(Line)
      OBVIOUS
    <3> HIDE DEF s
    <3> QED BY <1>1, <3>1 DEF Session
  <2> HIDE DEF t
  <2>3. \E n \in 0..Len(s.typed) : s.sent = SubSeq(s.typed, 1, n)
    <3>1. s.typed = s.sent \o s.queue
      BY <1>1, <2>1 DEF LinesOf
    <3> HIDE DEF s
    <3> QED BY <1>1, <3>1, PrefixOf
  <2>4. LinesOf(t)
    BY <2>2, <2>3 DEF LinesOf
  <2>5. job' = job
    BY <2>1 DEF rpc
  <2> QED BY <1>1, <2>1, <2>2, <2>4, <2>5 DEF TermInv
<1>8. ASSUME NEW line \in Line, Enter(b, line) PROVE (RpcNext \/ UNCHANGED rpc) /\ TermInv'
  <2> DEFINE e == [s EXCEPT !.typed = Append(s.typed, line)]
  <2>1. /\ ~s.disposed
        /\ \/ /\ s.busy /\ UNCHANGED rpc
              /\ term' = [term EXCEPT ![b] = [e EXCEPT !.queue = Append(s.queue, line)]]
           \/ /\ ~s.busy
              /\ awaits(b, line, [e EXCEPT !.at = "line", !.sent = Append(s.sent, line)])
    BY <1>1, <1>8 DEF Enter, runs, Session
  <2>2. s.sent \o s.queue = s.typed
    BY <1>1, <2>1 DEF LinesOf
  <2>3. CASE s.busy
    <3> DEFINE t == [e EXCEPT !.queue = Append(s.queue, line)]
    <3>1. term' = [term EXCEPT ![b] = t] /\ UNCHANGED rpc
      BY <2>1, <2>3
    <3>2. Append(s.queue, line) \in Seq(Line) /\ s.sent \o Append(s.queue, line) = Append(s.typed, line)
          /\ Append(s.typed, line) \in Seq(Line)
      <4>1. s.sent \in Seq(Line) /\ s.queue \in Seq(Line) /\ s.typed \in Seq(Line)
        BY <1>1 DEF Session
      <4> HIDE DEF s
      <4> DEFINE sent == s.sent  queue == s.queue  typed == s.typed
      <4>2. sent \in Seq(Line) /\ queue \in Seq(Line) /\ typed \in Seq(Line) /\ sent \o queue = typed
        BY <4>1, <2>2
      <4> SUFFICES Append(queue, line) \in Seq(Line) /\ sent \o Append(queue, line) = Append(typed, line)
                   /\ Append(typed, line) \in Seq(Line)
        OBVIOUS
      <4> HIDE DEF sent, queue, typed
      <4>3. line \in Line
        OBVIOUS
      <4>4. Append(queue, line) \in Seq(Line) /\ sent \o Append(queue, line) = Append(sent \o queue, line)
        BY <4>2, <4>3, EnteredLast
      <4>5. Append(typed, line) \in Seq(Line)
        BY <4>2, <4>3
      <4> QED BY <4>2, <4>4, <4>5
    <3>3. /\ t \in Session /\ t.disposed = s.disposed /\ t.queue = Append(s.queue, line)
          /\ t.typed = Append(s.typed, line) /\ t.sent = s.sent /\ t.job = s.job /\ t.busy = s.busy
      BY <1>1, <3>2 DEF Session
    <3> HIDE DEF t
    <3>4. LinesOf(t)
      BY <2>1, <3>2, <3>3 DEF LinesOf
    <3>5. job' = job
      BY <3>1 DEF rpc
    <3> QED BY <1>1, <2>3, <3>1, <3>3, <3>4, <3>5 DEF TermInv
  <2>4. CASE ~s.busy
    <3> DEFINE t == [e EXCEPT !.at = "line", !.sent = Append(s.sent, line)]
    <3>1. awaits(b, line, t) /\ s.queue = <<>>
      BY <1>1, <2>1, <2>4
    <3>2. Append(s.sent, line) \in Seq(Line) /\ Append(s.sent, line) \o <<>> = Append(s.typed, line)
          /\ Append(s.typed, line) \in Seq(Line)
      BY <1>1, <2>2, <3>1, EnteredLast
    <3>3. /\ t \in Session /\ t.disposed = s.disposed /\ t.queue = <<>>
          /\ t.typed = Append(s.typed, line) /\ t.sent = Append(s.sent, line)
      BY <1>1, <3>1, <3>2 DEF Session
    <3> HIDE DEF t
    <3>4. LinesOf(t)
      BY <2>1, <3>2, <3>3 DEF LinesOf
    <3> QED BY <3>1, <3>3, <3>4, AwaitsKeeps DEF Kind, Line
  <2> QED BY <2>3, <2>4
<1> QED BY <1>3, <1>4, <1>5, <1>6, <1>7, <1>8 DEF Continues

LEMMA TerminalInit == Init => RpcInv /\ TermInv
<1> SUFFICES ASSUME Init PROVE RpcInv /\ TermInv
  OBVIOUS
<1>1. RpcInv
  BY RpcInitInv DEF Init
<1>2. ASSUME NEW b \in Box
      PROVE  /\ NoSession(b) \in Session /\ LinesOf(NoSession(b))
             /\ NoSession(b).job = 0 /\ NoSession(b).queue = <<>>
  <2>1. <<>> \in Seq(Line) /\ <<>> \o <<>> = <<>> /\ Home(b) \in Dir
    BY DEF Home, Dir
  <2> QED BY <2>1 DEF NoSession, Session, LinesOf, None
<1>3. term = [b \in Box |-> NoSession(b)] /\ Len(job) = 0
  BY DEF Init, RpcInit
<1> QED BY <1>1, <1>2, <1>3 DEF TermInv

LEMMA TerminalStep == RpcInv /\ TermInv /\ [Next]_vars => RpcInv' /\ TermInv'
<1> SUFFICES ASSUME RpcInv, TermInv, [Next]_vars PROVE RpcInv' /\ TermInv'
  OBVIOUS
<1>0. ASSUME UNCHANGED term, job' \in Seq(JobRecord), Len(job') >= Len(job) PROVE TermInv'
  <2>1. \A b \in Box : term[b].job \in Nat
    BY DEF TermInv, Session
  <2>2. Len(job) \in Nat /\ Len(job') \in Nat
    BY <1>0 DEF RpcInv, RpcTypeOK
  <2> QED BY <1>0, <2>1, <2>2 DEF TermInv
<1>1. ASSUME NEW b \in Box,
             \/ Opens(b) \/ Continues(b) \/ Dispose(b) \/ \E line \in {"run", "cd"} : Enter(b, line)
      PROVE  RpcInv' /\ TermInv'
  BY <1>1, SessionStep, RpcStep DEF Line
<1>2. ASSUME NEW b \in Box, NEW kind \in {"run", "spawn", "ask"}, AgentCalls(kind, b)
      PROVE  RpcInv' /\ TermInv'
  <2>1. Calls(kind, Home(b)) /\ UNCHANGED rest /\ UNCHANGED term
    BY <1>2 DEF AgentCalls
  <2>2. Home(b) \in Dir /\ kind \in Kind
    BY DEF Home, Dir, Kind
  <2>3. RpcInv'
    BY <2>1, <2>2, RpcStep DEF RpcNext
  <2>4. Len(job') = Len(job) + 1 /\ Len(job) \in Nat /\ job' \in Seq(JobRecord)
    BY <2>1, <2>3, AppendProperties DEF Calls, RpcInv, RpcTypeOK
  <2> QED BY <1>0, <2>1, <2>3, <2>4
<1>3. CASE ((\E j \in Job : Proceeds(j)) \/ HostAnswers \/ HostDies) /\ UNCHANGED <<term, agentCalls>>
  <2>1. RpcInv'
    BY <1>3, RpcStep DEF RpcNext
  <2>2. Len(job') = Len(job) /\ Len(job) \in Nat
    <3>1. job \in Seq(JobRecord) /\ Len(job) \in Nat
      BY DEF RpcInv, RpcTypeOK
    <3>2. ASSUME NEW j \in Job, Proceeds(j) PROVE \E r : job' = [job EXCEPT ![j] = r]
      BY <3>1, <3>2 DEF Proceeds, Sends, SendFails, Receives, TimesOut, WritesEnv
    <3>3. HostAnswers \/ HostDies => job' = job
      BY DEF HostAnswers, HostPlaces, HostAsked, HostStarts, HostEnds, HostDies, client
    <3> QED BY <1>3, <3>1, <3>2, <3>3
  <2> QED BY <1>0, <1>3, <2>1, <2>2 DEF RpcInv, RpcTypeOK
<1>4. CASE UNCHANGED vars
  <2>1. RpcInv'
    BY <1>4, RpcStep DEF vars
  <2>2. job' = job /\ term' = term
    BY <1>4 DEF vars, rpc
  <2> QED BY <2>1, <2>2 DEF TermInv
<1> QED BY <1>1, <1>2, <1>3, <1>4 DEF Next

THEOREM TerminalInvariant == Spec => [](RpcInv /\ TermInv)
<1> QED BY TerminalInit, TerminalStep, PTL DEF Spec

\* Whatever calls of containers, terminals and agent share the one command
\* file, and whatever fails, is late or was given up: a command is answered by
\* its own result, commands start once and in the order of the calls, a call
\* fails only by itself, and a command runs in its own directory and environment.
THEOREM CommandsAreIsolated == Spec => []CommandsIsolated
<1>1. RpcInv => CommandsIsolated
  <2> SUFFICES ASSUME RpcInv PROVE CommandsIsolated
    OBVIOUS
  <2>1. AnswersOwn /\ FailureIsOwn
    BY DEF RpcInv, CallShape, AnswersOwn, FailureIsOwn
  <2> QED BY <2>1 DEF RpcInv, CommandsIsolated, ChainIsolates
<1> QED BY TerminalInvariant, <1>1, PTL

\* The lines entered while a session boots or awaits another line are sent
\* each once, in the order they were entered; a disposed session sends no more.
THEOREM LinesAreInOrder == Spec => []LinesInOrder
<1>1. TermInv => LinesInOrder
  BY DEF TermInv, LinesOf, LinesInOrder
<1> QED BY TerminalInvariant, <1>1, PTL
=============================================================================
