-------------------------- MODULE MediaCacheProofs --------------------------
(***************************************************************************)
(* Blobs and avatars for any number of requests, blobs and faults.         *)
(*                                                                         *)
(* A request is for one thing and its second attempt is not made before    *)
(* its first (TryInv): so the download it waits for is its own.            *)
(* Only the first in the queue of the avatar lock fetches (LockInv), so    *)
(* nobody records a miss between the second look and the answer.           *)
(***************************************************************************)
EXTENDS MediaCache, SequenceTheorems, TLAPS

JobStages == {"none", "asked", "fetching", "writing", "done", "failed", "lost"}
Stages == {"idle", "waiting", "fetching", "ended"}
Hows == {"none", "partial", "whole"}
Things == Blobs \union Contacts \union {None}
ReqRecords == [stage : Stages, of : Things, try : 0..2,
               fresh : BOOLEAN, broke : BOOLEAN, got : Things, how : Hows]

Types ==
  /\ jobs \in [Jobs -> JobStages]
  /\ disk \in [Blobs -> Hows]
  /\ writer \in [Blobs -> Jobs \union {None}]
  /\ info \in Blobs \union {None}
  /\ reqs \in [Requests -> ReqRecords]
  /\ lock \in Seq(Requests)

\* The second attempt comes after the first; who waits for the lock wants an avatar.
TryInv ==
  /\ \A r \in Requests :
       /\ reqs[r].try < 2 => jobs[<<r, 2>>] = "none"
       /\ reqs[r].stage = "idle" => reqs[r] = Idle
       /\ reqs[r].stage = "waiting" /\ reqs[r].of \in Blobs => reqs[r].try \in {1, 2}
       /\ reqs[r].stage = "fetching" => reqs[r].of \in Contacts
  /\ \A i \in 1..Len(lock) : reqs[lock[i]].stage # "idle" /\ reqs[lock[i]].of \in Contacts

MediaInv == Types /\ TryInv /\ AnsweredGetTheirOwn

-----------------------------------------------------------------------------
(* What the steps do to requests and downloads *)

LEMMA JobForms ==
  /\ \A r \in Requests : <<r, 1>> \in Jobs /\ <<r, 2>> \in Jobs
  /\ \A b \in Blobs : <<b, 0>> \in Jobs
  /\ \A j \in Jobs : (j[2] = 0 /\ j[1] \in Blobs) \/ (j[2] \in {1, 2} /\ j[1] \in Requests)
BY DEF Jobs

LEMMA MediaInit == Init => MediaInv
<1> SUFFICES ASSUME Init PROVE MediaInv
  OBVIOUS
<1> USE MediaAssumption DEF Init
<1>1. Types  BY DEF Types, ReqRecords, Stages, Hows, Idle, Things, JobStages
<1>3. TryInv
  <2>1. lock = <<>> /\ \A r \in Requests : reqs[r] = Idle /\ jobs[<<r, 2>>] = "none"  BY JobForms
  <2>2. \A i \in 1..Len(lock) : FALSE  BY <2>1
  <2>3. QED  BY <2>1, <2>2 DEF TryInv, Idle
<1>4. AnsweredGetTheirOwn  BY DEF AnsweredGetTheirOwn, Idle
<1>5. QED  BY <1>1, <1>3, <1>4 DEF MediaInv

-----------------------------------------------------------------------------
(* Steps of the bridge *)

LEMMA BridgeStep ==
  ASSUME MediaInv, (\E b \in Blobs : AutoDownload(b)) \/ (\E j \in Jobs : Download(j)) \/ BridgeCrash
  PROVE  MediaInv'
<1> USE MediaAssumption, JobForms DEF MediaInv
<1>0. reqs' = reqs /\ info' = info /\ lock' = lock
  BY DEF AutoDownload, Download, FindFile, OpenFile, WriteFile, DownloadFails, BridgeCrash, avatars
<1>1. ASSUME NEW b \in Blobs, AutoDownload(b) PROVE MediaInv'
  <2> USE <1>0, <1>1 DEF AutoDownload, files
  <2>1. Types'  BY DEF Types, JobStages, Hows
  <2>2. TryInv'  BY DEF TryInv, Types
  <2>4. AnsweredGetTheirOwn'  BY DEF AnsweredGetTheirOwn, Types, Job, TryInv, ReqRecords
  <2>5. QED  BY <2>1, <2>2, <2>4
<1>2. ASSUME NEW j \in Jobs, FindFile(j) PROVE MediaInv'
  <2> USE <1>0, <1>2 DEF FindFile, files
  <2>1. Types'  BY DEF Types, JobStages, Hows
  <2>3. TryInv'  BY DEF TryInv, Types
  <2>5. AnsweredGetTheirOwn'  BY DEF AnsweredGetTheirOwn, Types, Job, TryInv, ReqRecords
  <2>6. QED  BY <2>1, <2>3, <2>5
<1>3. ASSUME NEW j \in Jobs, OpenFile(j) PROVE MediaInv'
  <2> USE <1>0, <1>3 DEF OpenFile, files
  <2>1. Types'  BY DEF Types, JobStages, Hows
  <2>3. TryInv'  BY DEF TryInv, Types
  <2>5. AnsweredGetTheirOwn'  BY DEF AnsweredGetTheirOwn, Types, Job, TryInv, ReqRecords
  <2>6. QED  BY <2>1, <2>3, <2>5
<1>4. ASSUME NEW j \in Jobs, WriteFile(j) PROVE MediaInv'
  <2> USE <1>0, <1>4 DEF WriteFile, files
  <2>1. Types'  BY DEF Types, JobStages, Hows
  <2>3. TryInv'  BY DEF TryInv, Types
  <2>5. AnsweredGetTheirOwn'  BY DEF AnsweredGetTheirOwn, Types, Job, TryInv, ReqRecords
  <2>6. QED  BY <2>1, <2>3, <2>5
<1>5. ASSUME NEW j \in Jobs, DownloadFails(j) PROVE MediaInv'
  <2> USE <1>0, <1>5 DEF DownloadFails, files
  <2>1. Types'  BY DEF Types, JobStages, Hows
  <2>3. TryInv'  BY DEF TryInv, Types
  <2>5. AnsweredGetTheirOwn'  BY DEF AnsweredGetTheirOwn, Types, Job, TryInv, ReqRecords
  <2>6. QED  BY <2>1, <2>3, <2>5
<1>6. CASE BridgeCrash
  <2> USE <1>0, <1>6 DEF BridgeCrash, files
  <2>1. Types'  BY DEF Types, JobStages, Hows
  <2>3. TryInv'  BY DEF TryInv, Types
  <2>5. AnsweredGetTheirOwn'
    <3>1. \A j \in Jobs : jobs[j] \in {"failed", "lost"} => jobs'[j] = "lost"  OBVIOUS
    <3>2. ASSUME NEW r \in Requests, reqs[r].try > 0 PROVE <<r, reqs[r].try>> \in Jobs
      <4>1. reqs[r].try \in 0..2  BY DEF Types, ReqRecords
      <4>2. reqs[r].try = 1 \/ reqs[r].try = 2  BY <3>2, <4>1
      <4>3. QED  BY <4>2, JobForms
    <3>3. QED  BY <3>1, <3>2 DEF AnsweredGetTheirOwn, Job
  <2>6. QED  BY <2>1, <2>3, <2>5
<1>7. QED  BY <1>1, <1>2, <1>3, <1>4, <1>5, <1>6 DEF Download

-----------------------------------------------------------------------------
(* Steps of the service *)

\* What is not a request's own stays.
Others(r) == \A q \in Requests \ {r} : reqs'[q] = reqs[q]
Stays(r) == reqs'[r].of = reqs[r].of /\ reqs'[r].try = reqs[r].try

LEMMA Replaced ==
  ASSUME reqs \in [Requests -> ReqRecords], NEW r \in Requests, NEW s \in ReqRecords,
         reqs' = [reqs EXCEPT ![r] = s]
  PROVE  reqs' \in [Requests -> ReqRecords] /\ reqs'[r] = s /\ Others(r)
BY DEF Others

LEMMA Ending ==
  ASSUME reqs \in [Requests -> ReqRecords], NEW r \in Requests, NEW how \in Hows, NEW got \in Things,
         Ends(r, how, got)
  PROVE  /\ reqs' \in [Requests -> ReqRecords] /\ Others(r) /\ Stays(r)
         /\ reqs'[r].stage = "ended" /\ reqs'[r].broke = reqs[r].broke
         /\ reqs'[r].got = got
<1> DEFINE s == [[[reqs[r] EXCEPT !.stage = "ended"] EXCEPT !.how = how] EXCEPT !.got = got]
<1>1. reqs[r] \in ReqRecords  OBVIOUS
<1>2. s \in ReqRecords  BY <1>1 DEF ReqRecords, Stages
<1>3. reqs' = [reqs EXCEPT ![r] = s]  BY <1>1 DEF Ends, ReqRecords
<1>4. QED  BY <1>1, <1>2, <1>3, Replaced DEF Stays, ReqRecords

\* A request goes on or ends, and is still for what it was for.
LEMMA GoesOn ==
  ASSUME MediaInv, NEW r \in Requests, UNCHANGED <<files, jobs>>, info' \in Blobs \union {None},
         lock' \in {lock, Tail(lock)}, lock' = lock \/ lock # <<>>,
         reqs' \in [Requests -> ReqRecords], Others(r), Stays(r),
         reqs[r].stage # "idle", reqs'[r].stage \in {"ended", "fetching"},
         reqs'[r].stage = "fetching" => reqs[r].of \in Contacts,
         reqs'[r].stage = "ended" /\ reqs[r].of \in Blobs /\ ~reqs'[r].broke =>
           reqs'[r].got = reqs[r].of
             \/ (reqs'[r].got = None /\ reqs[r].try > 0 /\ Job(r) \in {"failed", "lost"})
  PROVE  MediaInv'
<1> USE JobForms DEF MediaInv, files
<1>1. \A q \in Requests : reqs'[q].of = reqs[q].of /\ reqs'[q].try = reqs[q].try
  BY DEF Others, Stays
<1>2. Types'
  <2>1. lock \in Seq(Requests)  BY DEF Types
  <2>2. lock' \in Seq(Requests)  BY <2>1, HeadTailProperties
  <2>3. QED  BY <2>2 DEF Types
<1>4. TryInv'
  <2>1. \A q \in Requests : /\ reqs'[q].try < 2 => jobs'[<<q, 2>>] = "none"
                            /\ reqs'[q].stage = "idle" => reqs'[q] = Idle
                            /\ reqs'[q].stage = "waiting" /\ reqs'[q].of \in Blobs => reqs'[q].try \in {1, 2}
                            /\ reqs'[q].stage = "fetching" => reqs'[q].of \in Contacts
    <3>1. ASSUME NEW q \in Requests \ {r} PROVE reqs'[q] = reqs[q]  BY DEF Others
    <3>2. ASSUME NEW q \in Requests \ {r}
          PROVE  /\ reqs'[q].try < 2 => jobs'[<<q, 2>>] = "none"
                 /\ reqs'[q].stage = "idle" => reqs'[q] = Idle
                 /\ reqs'[q].stage = "waiting" /\ reqs'[q].of \in Blobs => reqs'[q].try \in {1, 2}
                 /\ reqs'[q].stage = "fetching" => reqs'[q].of \in Contacts
      BY <3>1 DEF TryInv
    <3>3. reqs'[r].try < 2 => jobs'[<<r, 2>>] = "none"  BY <1>1 DEF TryInv
    <3>4. reqs'[r].stage = "fetching" => reqs'[r].of \in Contacts  BY <1>1
    <3>5. QED  BY <3>2, <3>3, <3>4
  <2>2. \A q \in Requests : reqs[q].stage # "idle" => reqs'[q].stage # "idle"
    BY DEF Others
  <2>3. \A i \in 1..Len(lock') : \E k \in 1..Len(lock) : lock'[i] = lock[k] /\ lock[k] \in Requests
    <3>1. CASE lock' = lock  BY <3>1 DEF Types
    <3>2. CASE lock' = Tail(lock) /\ lock # <<>>
      <4>1. lock \in Seq(Requests) /\ Len(lock') = Len(lock) - 1  BY <3>2, HeadTailProperties DEF Types
      <4>a. \A i \in 1..Len(Tail(lock)) : Tail(lock)[i] = lock[i + 1]  BY <3>2, <4>1, HeadTailProperties
      <4>b. Len(lock) \in Nat  BY <4>1
      <4>2. ASSUME NEW i \in 1..Len(lock')
            PROVE  i + 1 \in 1..Len(lock) /\ lock'[i] = lock[i + 1]
        <5>1. i + 1 \in 1..Len(lock)  BY <4>1, <4>b, SMT
        <5>2. i \in 1..Len(Tail(lock))  BY <3>2
        <5>3. QED  BY <3>2, <4>a, <5>1, <5>2
      <4>3. ASSUME NEW i \in 1..Len(lock) PROVE lock[i] \in Requests
        BY <4>1
      <4>4. QED  BY <4>2, <4>3
    <3>3. QED  BY <3>1, <3>2
  <2>4. ASSUME NEW i \in 1..Len(lock')
        PROVE  reqs'[lock'[i]].stage # "idle" /\ reqs'[lock'[i]].of \in Contacts
    <3>1. PICK k \in 1..Len(lock) : lock'[i] = lock[k] /\ lock[k] \in Requests  BY <2>3
    <3>2. reqs[lock[k]].stage # "idle" /\ reqs[lock[k]].of \in Contacts  BY DEF TryInv
    <3>3. QED  BY <1>1, <2>2, <3>1, <3>2
  <2>5. QED  BY <2>1, <2>4 DEF TryInv
<1>5. AnsweredGetTheirOwn'
  <2>1. ASSUME NEW q \in Requests \ {r} PROVE reqs'[q] = reqs[q] /\ Job(q)' = Job(q)
    BY <1>1 DEF Job, Others
  <2>2. Job(r)' = Job(r)  BY DEF Job, Stays
  <2>3. QED  BY <1>1, <2>1, <2>2 DEF AnsweredGetTheirOwn
<1>6. QED  BY <1>2, <1>4, <1>5

\* The second attempt: its download did not exist, so it wrote nothing yet.
LEMMA RetryStep ==
  ASSUME MediaInv, NEW r \in Requests, DownloadRetried(r)
  PROVE  MediaInv'
<1> USE JobForms DEF MediaInv
<1> DEFINE s == [reqs[r] EXCEPT !.try = 2]
<1>1. reqs \in [Requests -> ReqRecords] /\ reqs[r] \in ReqRecords  BY DEF Types
<1>2. s \in ReqRecords /\ s.of = reqs[r].of /\ s.try = 2 /\ s.stage = reqs[r].stage  BY <1>1 DEF ReqRecords
<1>3. reqs' = [reqs EXCEPT ![r] = s]  BY <1>1 DEF DownloadRetried, ReqRecords
<1>4. reqs' \in [Requests -> ReqRecords] /\ reqs'[r] = s /\ Others(r)  BY <1>1, <1>2, <1>3, Replaced
<1>5. UNCHANGED <<disk, writer, info, lock>> /\ Waits(r) /\ reqs[r].try = 1
  BY DEF DownloadRetried, files, avatars
<1>6. jobs' = [jobs EXCEPT ![<<r, 2>>] = "asked"] /\ jobs[<<r, 2>>] = "none"
  BY <1>5 DEF DownloadRetried, Post, TryInv
<1>7. \A q \in Requests : reqs'[q].of = reqs[q].of /\ reqs'[q].stage = reqs[q].stage  BY <1>2, <1>4 DEF Others
<1>8. Types'  BY <1>4, <1>5, <1>6 DEF Types, JobStages
<1>11. TryInv'
  <2>1. \A q \in Requests \ {r} : reqs'[q] = reqs[q] /\ jobs'[<<q, 2>>] = jobs[<<q, 2>>]
    BY <1>4, <1>6 DEF Others, Types
  <2>2. reqs'[r].try = 2 /\ reqs'[r].stage = "waiting"  BY <1>2, <1>4, <1>5 DEF Waits
  <2>3. \A i \in 1..Len(lock') : reqs'[lock'[i]].stage # "idle" /\ reqs'[lock'[i]].of \in Contacts
    <3>1. \A i \in 1..Len(lock) : lock[i] \in Requests  BY DEF Types
    <3>2. QED  BY <1>5, <1>7, <3>1 DEF TryInv
  <2>4. QED  BY <2>1, <2>2, <2>3 DEF TryInv
<1>12. AnsweredGetTheirOwn'
  <2>1. ASSUME NEW q \in Requests \ {r}, reqs[q].try > 0 PROVE Job(q)' = Job(q)
    <3>1. reqs[q].try \in 0..2  BY DEF Types, ReqRecords
    <3>2. reqs[q].try = 1 \/ reqs[q].try = 2  BY <2>1, <3>1
    <3>3. reqs'[q] = reqs[q]  BY <1>4 DEF Others
    <3>4. QED  BY <1>6, <3>2, <3>3 DEF Job, Types
  <2>2. reqs'[r].stage = "waiting"  BY <1>2, <1>4, <1>5 DEF Waits
  <2>3. \A q \in Requests \ {r} : reqs'[q] = reqs[q]  BY <1>4 DEF Others
  <2>4. QED  BY <2>1, <2>2, <2>3 DEF AnsweredGetTheirOwn
<1>13. QED  BY <1>8, <1>11, <1>12

\* A request begins: no download was its own, and it was not in the queue.
LEMMA Begins ==
  ASSUME MediaInv, NEW r \in Requests, reqs[r] = Idle, UNCHANGED <<files, info>>,
         reqs' \in [Requests -> ReqRecords], Others(r),
         reqs'[r].stage \in {"ended", "waiting"}, reqs'[r].try < 2,
         reqs'[r].stage = "ended" /\ reqs'[r].of \in Blobs => reqs'[r].got = reqs'[r].of,
         reqs'[r].stage = "waiting" /\ reqs'[r].of \in Blobs => reqs'[r].try = 1,
         jobs' = jobs \/ jobs' = [jobs EXCEPT ![<<r, 1>>] = "asked"],
         lock' = lock \/ (lock' = Append(lock, r) /\ reqs'[r].of \in Contacts)
  PROVE  MediaInv'
<1> USE MediaAssumption, JobForms DEF MediaInv, files
<1>1. \A q \in Requests \ {r} : reqs'[q] = reqs[q]  BY DEF Others
<1>2. reqs[r].of = None /\ reqs[r].try = 0 /\ reqs[r].stage = "idle"  BY DEF Idle
<1>4. \A j \in Jobs : j[2] = 0 \/ j[1] # r => jobs'[j] = jobs[j]  BY DEF Types
<1>5. Types'
  <2>1. lock' \in Seq(Requests)
    <3>1. lock \in Seq(Requests)  BY DEF Types
    <3>2. Append(lock, r) \in Seq(Requests)  BY <3>1, AppendProperties
    <3>3. lock' = lock \/ lock' = Append(lock, r)  OBVIOUS
    <3>4. QED  BY <3>1, <3>2, <3>3, Zenon
  <2>2. jobs' \in [Jobs -> JobStages]  BY DEF Types, JobStages
  <2>3. QED  BY <2>1, <2>2 DEF Types
<1>8. TryInv'
  <2>1. ASSUME NEW q \in Requests PROVE jobs'[<<q, 2>>] = jobs[<<q, 2>>]
    <3>1. CASE jobs' = jobs  BY <3>1
    <3>2. CASE jobs' = [jobs EXCEPT ![<<r, 1>>] = "asked"]
      <4>1. <<q, 2>> \in Jobs /\ jobs \in [Jobs -> JobStages]  BY DEF Types
      <4>2. <<q, 2>> # <<r, 1>>  OBVIOUS
      <4>3. QED  BY <3>2, <4>1, <4>2
    <3>3. QED  BY <3>1, <3>2
  <2>2. \A q \in Requests \ {r} : /\ reqs'[q].try < 2 => jobs'[<<q, 2>>] = "none"
                                  /\ reqs'[q].stage = "idle" => reqs'[q] = Idle
                                  /\ reqs'[q].stage = "waiting" /\ reqs'[q].of \in Blobs => reqs'[q].try \in {1, 2}
                                  /\ reqs'[q].stage = "fetching" => reqs'[q].of \in Contacts
    BY <1>1, <2>1 DEF TryInv
  <2>3. jobs'[<<r, 2>>] = "none"  BY <1>2, <2>1 DEF TryInv
  <2>4. ASSUME NEW i \in 1..Len(lock) PROVE lock[i] \in Requests \ {r} /\ reqs'[lock[i]].stage # "idle" /\ reqs'[lock[i]].of \in Contacts
    <3>1. lock[i] \in Requests  BY DEF Types
    <3>2. QED  BY <1>1, <1>2, <3>1 DEF TryInv
  <2>5. ASSUME NEW i \in 1..Len(lock') PROVE reqs'[lock'[i]].stage # "idle" /\ reqs'[lock'[i]].of \in Contacts
    <3>1. CASE lock' = lock  BY <2>4, <3>1
    <3>2. CASE lock' = Append(lock, r) /\ reqs'[r].of \in Contacts
      <4>1. lock \in Seq(Requests) /\ Len(lock) \in Nat  BY DEF Types
      <4>2. Len(lock') = Len(lock) + 1  BY <3>2, <4>1, AppendProperties
      <4>3. CASE i = Len(lock) + 1
        <5>1. lock'[i] = r  BY <3>2, <4>1, <4>3, AppendProperties
        <5>2. QED  BY <3>2, <5>1
      <4>4. CASE i # Len(lock) + 1
        <5>1. i \in 1..Len(lock)  BY <4>1, <4>2, <4>4
        <5>2. lock'[i] = lock[i]  BY <3>2, <4>1, <5>1, AppendProperties
        <5>3. QED  BY <2>4, <5>1, <5>2
      <4>5. QED  BY <4>3, <4>4
    <3>3. QED  BY <3>1, <3>2
  <2>6. QED  BY <2>2, <2>3, <2>5 DEF TryInv
<1>9. AnsweredGetTheirOwn'
  <2>1. ASSUME NEW q \in Requests \ {r}, reqs[q].try > 0 PROVE Job(q)' = Job(q)
    <3>1. reqs[q].try \in 0..2  BY DEF Types, ReqRecords
    <3>2. reqs[q].try = 1 \/ reqs[q].try = 2  BY <2>1, <3>1
    <3>3. <<q, reqs[q].try>> \in Jobs  BY <3>2
    <3>4. QED  BY <1>1, <1>4, <3>3 DEF Job
  <2>2. QED  BY <1>1, <2>1 DEF AnsweredGetTheirOwn
<1>10. QED  BY <1>5, <1>8, <1>9

\* The first in the queue wants an avatar.
LEMMA LockHead ==
  ASSUME MediaInv, NEW r \in Requests, lock # <<>>, Head(lock) = r
  PROVE  reqs[r].of \in Contacts /\ reqs[r].of \notin Blobs /\ reqs[r].stage # "idle"
<1>1. lock \in Seq(Requests) /\ Len(lock) \in Nat /\ Len(lock) # 0  BY DEF MediaInv, Types
<1>2. 1 \in 1..Len(lock) /\ lock[1] = r  BY <1>1
<1>3. QED  BY <1>2, MediaAssumption DEF MediaInv, TryInv

LEMMA ServiceStep ==
  ASSUME MediaInv, NEW r \in Requests, Handle(r)
  PROVE  MediaInv'
<1> USE MediaAssumption DEF MediaInv
<1>1. reqs \in [Requests -> ReqRecords] /\ reqs[r] \in ReqRecords  BY DEF Types
<1>2. CASE DownloadAnswered(r)
  <2>1. UNCHANGED <<files, jobs, lock>> /\ Waits(r)  BY <1>2 DEF DownloadAnswered, avatars
  <2>2. info' = (IF Job(r) = "done" THEN reqs[r].of ELSE None) /\ info' \in Blobs \union {None}
    BY <1>2, <2>1 DEF DownloadAnswered, Waits
  <2>3. PICK got \in Things, how \in Hows :
          /\ Ends(r, how, got)
          /\ got = reqs[r].of \/ (got = info' /\ info' # None) \/ (got = None /\ info' = None)
    <3>1. \A b \in Blobs : disk[b] \in Hows  BY DEF Types
    <3>2. QED  BY <1>2, <2>1, <2>2, <3>1 DEF DownloadAnswered, Serve, Waits, Things, Hows
  <2>4. reqs[r].try > 0
    <3>1. reqs[r].try \in {1, 2}  BY <2>1 DEF TryInv, Waits
    <3>2. QED  BY <3>1
  <2>5. got = reqs[r].of \/ (got = None /\ Job(r) = "failed")
    BY <1>2, <2>1, <2>2, <2>3 DEF DownloadAnswered, Waits
  <2>6. QED  BY <1>1, <2>1, <2>2, <2>3, <2>4, <2>5, Ending, GoesOn DEF Waits
<1>3. CASE DownloadRetried(r)
  BY <1>3, RetryStep
<1>4. CASE DownloadBreaks(r)
  <2> DEFINE b == reqs[r].of
             got == IF OnDisk(b) THEN b ELSE info
             how == IF got = None THEN "none" ELSE disk[got]
             s == [reqs[r] EXCEPT !.stage = "ended", !.broke = TRUE, !.got = got, !.how = how]
  <2>1. UNCHANGED <<files, jobs, lock, info>> /\ Waits(r) /\ reqs' = [reqs EXCEPT ![r] = s]
    BY <1>4 DEF DownloadBreaks, avatars
  <2>2. got \in Blobs \union {None} /\ how \in Hows  BY <2>1 DEF Types, Waits, Hows
  <2>3. s \in ReqRecords  BY <1>1, <2>2 DEF ReqRecords, Stages, Things
  <2>4. reqs' \in [Requests -> ReqRecords] /\ reqs'[r] = s /\ Others(r)  BY <1>1, <2>1, <2>3, Replaced
  <2>5. s.stage = "ended" /\ s.broke = TRUE /\ s.of = reqs[r].of /\ s.try = reqs[r].try
    BY <1>1 DEF ReqRecords
  <2>6. Stays(r)  BY <2>4, <2>5 DEF Stays
  <2>7. info' \in Blobs \union {None}  BY <2>1 DEF Types
  <2>8. QED  BY <1>1, <2>1, <2>4, <2>5, <2>6, <2>7, GoesOn DEF Waits
<1>5. ASSUME lock # <<>>, Head(lock) = r PROVE reqs[r].of \in Contacts /\ reqs[r].of \notin Blobs /\ reqs[r].stage # "idle"
  BY <1>5, LockHead
<1>6. ASSUME NEW how \in Hows, NEW got \in Things, Ends(r, how, got),
             lock # <<>>, Head(lock) = r, UNCHANGED <<files, jobs, info>>, lock' = Tail(lock)
      PROVE  MediaInv'
  <2>1. info' \in Blobs \union {None}  BY <1>6 DEF Types
  <2>2. QED  BY <1>1, <1>5, <1>6, <2>1, Ending, GoesOn
<1>7. CASE LockTaken(r)
  <2>1. UNCHANGED <<files, jobs, info>> /\ lock # <<>> /\ Head(lock) = r  BY <1>7 DEF LockTaken, Holds
  <2>2. CASE Ends(r, "none", None) /\ lock' = Tail(lock)  BY <1>6, <2>1, <2>2 DEF Hows, Things
  <2>3. CASE reqs' = [reqs EXCEPT ![r].stage = "fetching"] /\ lock' = lock
    <3> DEFINE s == [reqs[r] EXCEPT !.stage = "fetching"]
    <3>1. s \in ReqRecords  BY <1>1 DEF ReqRecords, Stages
    <3>2. reqs' = [reqs EXCEPT ![r] = s]  BY <1>1, <2>3
    <3>3. reqs' \in [Requests -> ReqRecords] /\ reqs'[r] = s /\ Others(r)  BY <1>1, <3>1, <3>2, Replaced
    <3>4. s.stage = "fetching" /\ s.of = reqs[r].of /\ s.try = reqs[r].try  BY <1>1 DEF ReqRecords
    <3>5. Stays(r)  BY <3>3, <3>4 DEF Stays
    <3>6. info' \in Blobs \union {None}  BY <2>1 DEF Types
    <3>7. QED  BY <1>1, <1>5, <2>1, <2>3, <3>3, <3>4, <3>5, <3>6, GoesOn
  <2>4. QED  BY <1>7, <2>2, <2>3 DEF LockTaken, Release
<1>8. CASE AvatarShown(r)
  <2>1. reqs[r].of \in Things  BY <1>1 DEF ReqRecords
  <2>2. QED  BY <1>6, <1>8, <2>1 DEF AvatarShown, Holds, Release, Hows
<1>9. CASE AvatarMissed(r) \/ AvatarRaises(r)
  BY <1>6, <1>9 DEF AvatarMissed, AvatarRaises, Holds, Release, Hows, Things
<1>10. QED  BY <1>2, <1>3, <1>4, <1>7, <1>8, <1>9 DEF Handle

LEMMA IdleRecord ==
  /\ Idle \in ReqRecords /\ Idle.stage = "idle" /\ Idle.try = 0
  /\ \A s \in ReqRecords, stage \in Stages : [s EXCEPT !.stage = stage] \in ReqRecords
  /\ \A s \in ReqRecords, of \in Things : [s EXCEPT !.of = of] \in ReqRecords
  /\ \A s \in ReqRecords, try \in 0..2 : [s EXCEPT !.try = try] \in ReqRecords
  /\ \A s \in ReqRecords, fresh \in BOOLEAN : [s EXCEPT !.fresh = fresh] \in ReqRecords
<1>1. Idle \in ReqRecords  BY DEF Idle, ReqRecords, Stages, Things, Hows
<1>2. Idle.stage = "idle" /\ Idle.try = 0  BY DEF Idle
<1>3. QED  BY <1>1, <1>2 DEF ReqRecords

LEMMA BeginStep ==
  ASSUME MediaInv, NEW r \in Requests,
         (\E b \in Blobs : media_file(r, b)) \/ (\E c \in Contacts, fresh \in BOOLEAN : contact_avatar(r, c, fresh))
  PROVE  MediaInv'
<1>1. reqs \in [Requests -> ReqRecords] /\ reqs[r] = Idle /\ disk \in [Blobs -> Hows]
  BY DEF MediaInv, Types, media_file, contact_avatar
<1>2. ASSUME NEW b \in Blobs, media_file(r, b) PROVE MediaInv'
  <2>1. UNCHANGED <<files, info>> /\ lock' = lock  BY <1>2 DEF media_file, avatars
  <2>2. CASE OnDisk(b)
    <3> DEFINE s == [Idle EXCEPT !.stage = "ended", !.of = b, !.got = b, !.how = disk[b]]
    <3>1. reqs' = [reqs EXCEPT ![r] = s] /\ jobs' = jobs  BY <1>2, <2>2 DEF media_file
    <3>2. s \in ReqRecords  BY <1>1 DEF Idle, ReqRecords, Stages, Things, Hows
    <3>3. s.stage = "ended" /\ s.of = b /\ s.got = b /\ s.try = 0  BY DEF Idle
    <3>4. reqs' \in [Requests -> ReqRecords] /\ reqs'[r] = s /\ Others(r)  BY <1>1, <3>1, <3>2, Replaced
    <3> HIDE DEF s
    <3>5. QED  BY <1>1, <2>1, <3>1, <3>3, <3>4, Begins
  <2>3. CASE ~OnDisk(b)
    <3> DEFINE s == [[[Idle EXCEPT !.stage = "waiting"] EXCEPT !.of = b] EXCEPT !.try = 1]
    <3>1. reqs' = [reqs EXCEPT ![r] = s] /\ jobs' = [jobs EXCEPT ![<<r, 1>>] = "asked"]
      BY <1>2, <2>3 DEF media_file, Post
    <3>2. s \in ReqRecords
      <4>1. "waiting" \in Stages /\ b \in Things /\ 1 \in 0..2  BY DEF Stages, Things
      <4>2. QED  BY <4>1, IdleRecord
    <3>3. s.stage = "waiting" /\ s.of = b /\ s.try = 1  BY DEF Idle
    <3>4. reqs' \in [Requests -> ReqRecords] /\ reqs'[r] = s /\ Others(r)  BY <1>1, <3>1, <3>2, Replaced
    <3> HIDE DEF s
    <3>5. reqs'[r].stage = "waiting" /\ reqs'[r].try = 1  BY <3>3, <3>4
    <3>6. reqs'[r].try < 2 /\ reqs'[r].stage # "ended"  BY <3>5
    <3>7. QED  BY <1>1, <2>1, <3>1, <3>4, <3>5, <3>6, Begins
  <2>4. QED  BY <2>2, <2>3
<1>3. ASSUME NEW c \in Contacts, NEW fresh \in BOOLEAN, contact_avatar(r, c, fresh) PROVE MediaInv'
  <2> DEFINE known == ~fresh /\ missed[c] > 0
             s == [[Idle EXCEPT !.of = c, !.fresh = fresh] EXCEPT !.stage = IF known THEN "ended" ELSE "waiting"]
  <2>1. UNCHANGED <<files, info, jobs>> /\ reqs' = [reqs EXCEPT ![r] = s]
        /\ (lock' = lock \/ lock' = Append(lock, r))
    BY <1>3 DEF contact_avatar
  <2>2. s \in ReqRecords /\ s.stage \in {"ended", "waiting"} /\ s.of = c /\ s.try = 0
    <3> DEFINE stage == IF known THEN "ended" ELSE "waiting"
    <3>1. stage \in {"ended", "waiting"} /\ stage \in Stages /\ c \in Things  BY DEF Stages, Things
    <3> HIDE DEF known, stage
    <3>2. s = [[[Idle EXCEPT !.of = c] EXCEPT !.fresh = fresh] EXCEPT !.stage = stage]  BY DEF stage, Idle
    <3>3. s \in ReqRecords  BY <3>1, <3>2, IdleRecord
    <3>4. s.stage = stage /\ s.of = c /\ s.try = 0  BY <3>2 DEF Idle
    <3>5. QED  BY <3>1, <3>3, <3>4
  <2>3. reqs' \in [Requests -> ReqRecords] /\ reqs'[r] = s /\ Others(r)  BY <1>1, <2>1, <2>2, Replaced
  <2> HIDE DEF s, known
  <2>4. c \notin Blobs  BY MediaAssumption
  <2>5. QED  BY <1>1, <2>1, <2>2, <2>3, <2>4, Begins
<1>4. QED  BY <1>2, <1>3

LEMMA MediaStutters ==
  ASSUME MediaInv, UNCHANGED <<files, jobs, info, reqs, lock>>
  PROVE  MediaInv'
<1> USE DEF MediaInv, files
<1>1. Types'  BY DEF Types
<1>2. TryInv'  BY DEF TryInv
<1>3. AnsweredGetTheirOwn'  BY DEF AnsweredGetTheirOwn, Job
<1>4. QED  BY <1>1, <1>2, <1>3

LEMMA MediaStep == MediaInv /\ [Next]_vars => MediaInv'
<1> SUFFICES ASSUME MediaInv, [Next]_vars PROVE MediaInv'
  OBVIOUS
<1>1. CASE (\E b \in Blobs : AutoDownload(b)) \/ (\E j \in Jobs : Download(j)) \/ BridgeCrash
  BY <1>1, BridgeStep
<1>2. CASE Tick \/ UNCHANGED vars
  BY <1>2, MediaStutters DEF Tick, vars, avatars
<1>3. ASSUME NEW r \in Requests,
             (\E b \in Blobs : media_file(r, b)) \/ (\E c \in Contacts, fresh \in BOOLEAN : contact_avatar(r, c, fresh))
      PROVE  MediaInv'
  BY <1>3, BeginStep
<1>4. ASSUME NEW r \in Requests, Handle(r) PROVE MediaInv'
  BY <1>4, ServiceStep
<1>5. QED  BY <1>1, <1>2, <1>3, <1>4 DEF Next

LEMMA MediaAlways == Spec => []MediaInv
<1>1. QED  BY MediaInit, MediaStep, PTL DEF Spec

\* The field all requests share is no answer to somebody else when an answered
\* request looks at it: who is answered gets the blob asked for, or nothing.
THEOREM AnsweredSafe == Spec => []AnsweredGetTheirOwn
<1>1. MediaInv => AnsweredGetTheirOwn  BY DEF MediaInv
<1>2. QED  BY MediaAlways, <1>1, PTL

-----------------------------------------------------------------------------
(* The avatar lock *)

LockInv ==
  /\ missed \in [Contacts -> Nat]
  /\ \A r \in Requests : reqs[r].stage = "fetching" =>
       /\ lock # <<>> /\ Head(lock) = r
       /\ ~reqs[r].fresh => missed[reqs[r].of] = 0

LEMMA LockInit == Init => LockInv
BY DEF Init, LockInv, Idle

\* Who joins the queue leaves its head where it is.
LEMMA HeadStays ==
  ASSUME lock \in Seq(Requests), lock # <<>>, NEW r \in Requests
  PROVE  Append(lock, r) # <<>> /\ Head(Append(lock, r)) = Head(lock)
<1>1. Len(lock) \in Nat /\ Len(lock) # 0  BY EmptySeq
<1>2. Append(lock, r) \in Seq(Requests) /\ Len(Append(lock, r)) = Len(lock) + 1 /\ Append(lock, r)[1] = lock[1]
  BY <1>1, AppendProperties
<1>3. QED  BY <1>1, <1>2

LEMMA LockStep == MediaInv /\ LockInv /\ [Next]_vars => LockInv'
<1> SUFFICES ASSUME MediaInv, LockInv, [Next]_vars PROVE LockInv'
  OBVIOUS
<1>1. /\ reqs \in [Requests -> ReqRecords] /\ lock \in Seq(Requests)
      /\ \A r \in Requests : reqs[r] \in ReqRecords
      /\ \A r \in Requests : reqs[r].stage = "fetching" => reqs[r].of \in Contacts
  BY DEF MediaInv, Types, TryInv
\* A step that takes nobody to the avatar or from it.
<1>2. ASSUME NEW r \in Requests, Others(r), reqs'[r].stage # "fetching", missed' = missed,
             reqs[r].stage # "fetching",
             lock' = lock \/ lock' = Append(lock, r)
      PROVE  LockInv'
  BY <1>1, <1>2, HeadStays DEF LockInv, Others
\* The holder ends: he was the only one.
<1>3. ASSUME NEW r \in Requests, lock # <<>>, Head(lock) = r, Others(r), reqs'[r].stage = "ended",
             missed' \in [Contacts -> Nat]
      PROVE  LockInv'
  BY <1>3 DEF LockInv, Others
<1>4. ASSUME UNCHANGED <<reqs, lock, missed>> PROVE LockInv'
  BY <1>4 DEF LockInv
<1>5. CASE \/ \E b \in Blobs : AutoDownload(b)
           \/ \E j \in Jobs : Download(j)
           \/ BridgeCrash \/ UNCHANGED vars
  BY <1>4, <1>5 DEF AutoDownload, Download, FindFile, OpenFile, WriteFile, DownloadFails, BridgeCrash, avatars, vars
<1>6. CASE Tick
  <2>1. missed' \in [Contacts -> Nat]
    <3>1. \A c \in Contacts : missed[c] \in Nat  BY DEF LockInv
    <3>2. \A c \in Contacts : missed[c] # 0 => missed[c] - 1 \in Nat  BY <3>1
    <3>3. QED  BY <1>6, <3>1, <3>2 DEF Tick
  <2>2. \A c \in Contacts : missed[c] = 0 => missed'[c] = 0  BY <1>6 DEF Tick
  <2>3. QED  BY <1>1, <1>6, <2>1, <2>2 DEF Tick, LockInv
<1>7. ASSUME NEW r \in Requests, NEW how \in Hows, NEW got \in Things, Ends(r, how, got)
      PROVE  Others(r) /\ reqs'[r].stage = "ended"
  BY <1>1, <1>7, Ending
<1>8. ASSUME NEW r \in Requests, Handle(r) PROVE LockInv'
  <2>1. CASE DownloadAnswered(r)
    <3>1. UNCHANGED <<lock, missed>> /\ Waits(r)  BY <2>1 DEF DownloadAnswered, avatars
    <3>2. reqs[r].stage # "fetching"  BY <3>1 DEF Waits
    <3>3. Others(r) /\ reqs'[r].stage = "ended"
      BY <1>1, <2>1 DEF DownloadAnswered, Serve, Ends, Others, ReqRecords
    <3>4. QED  BY <1>2, <3>1, <3>2, <3>3
  <2>2. CASE DownloadRetried(r) \/ DownloadBreaks(r)
    <3>1. UNCHANGED <<lock, missed>> /\ Waits(r)  BY <2>2 DEF DownloadRetried, DownloadBreaks, avatars
    <3>2. reqs[r].stage = "waiting"  BY <3>1 DEF Waits
    <3>3. Others(r)  BY <1>1, <2>2 DEF DownloadRetried, DownloadBreaks, Others
    <3>a. CASE DownloadRetried(r)  BY <1>1, <1>2, <3>1, <3>2, <3>3, <3>a DEF DownloadRetried, ReqRecords
    <3>b. CASE DownloadBreaks(r)  BY <1>1, <1>2, <3>1, <3>2, <3>3, <3>b DEF DownloadBreaks, ReqRecords
    <3>4. QED  BY <2>2, <3>a, <3>b
  <2>3. CASE LockTaken(r)
    <3>1. lock # <<>> /\ Head(lock) = r /\ reqs[r].stage = "waiting" /\ missed' = missed
      BY <2>3 DEF LockTaken, Holds
    <3>2. CASE ~reqs[r].fresh /\ missed[reqs[r].of] > 0
      <4>1. Ends(r, "none", None)  BY <2>3, <3>2 DEF LockTaken
      <4>2. Others(r) /\ reqs'[r].stage = "ended"  BY <1>7, <4>1 DEF Hows, Things
      <4>3. QED  BY <1>3, <3>1, <4>2 DEF LockInv
    <3>3. CASE ~(~reqs[r].fresh /\ missed[reqs[r].of] > 0)
      <4>1. lock' = lock /\ reqs' = [reqs EXCEPT ![r].stage = "fetching"]  BY <2>3, <3>3 DEF LockTaken
      <4>2. \A q \in Requests \ {r} : reqs'[q] = reqs[q]  BY <1>1, <4>1
      <4>3. reqs'[r].fresh = reqs[r].fresh /\ reqs'[r].of = reqs[r].of  BY <1>1, <4>1 DEF ReqRecords
      <4>4. reqs[r].of \in Contacts  BY <1>1, <3>1, LockHead DEF MediaInv
      <4>5. ~reqs[r].fresh => missed[reqs[r].of] = 0  BY <3>3, <4>4 DEF LockInv
      <4>6. QED  BY <3>1, <4>1, <4>2, <4>3, <4>5 DEF LockInv
    <3>4. QED  BY <3>2, <3>3
  <2>4. CASE AvatarShown(r) \/ AvatarMissed(r) \/ AvatarRaises(r)
    <3>1. lock # <<>> /\ Head(lock) = r /\ reqs[r].stage = "fetching"
      BY <2>4 DEF AvatarShown, AvatarMissed, AvatarRaises, Holds
    <3>2. reqs[r].of \in Things  BY <1>1 DEF ReqRecords
    <3>3. Others(r) /\ reqs'[r].stage = "ended"
      BY <1>7, <2>4, <3>2 DEF AvatarShown, AvatarMissed, AvatarRaises, Hows, Things
    <3>4. missed' \in [Contacts -> Nat]
      BY <2>4, MediaAssumption DEF AvatarShown, AvatarMissed, AvatarRaises, LockInv, avatars
    <3>5. QED  BY <1>3, <3>1, <3>3, <3>4
  <2>5. QED  BY <1>8, <2>1, <2>2, <2>3, <2>4 DEF Handle
<1>9. ASSUME NEW r \in Requests,
             (\E b \in Blobs : media_file(r, b)) \/ (\E c \in Contacts, fresh \in BOOLEAN : contact_avatar(r, c, fresh))
      PROVE  LockInv'
  <2>0. reqs[r] = Idle /\ missed' = missed  BY <1>9 DEF media_file, contact_avatar, avatars
  <2>1. reqs[r].stage # "fetching" /\ missed' = missed  BY <2>0, IdleRecord
  <2>2. Others(r) /\ (lock' = lock \/ lock' = Append(lock, r))
    BY <1>1, <1>9 DEF media_file, contact_avatar, Others, avatars
  <2>3. reqs'[r].stage # "fetching"
    BY <1>1, <1>9 DEF media_file, contact_avatar, Idle
  <2>4. QED  BY <1>2, <2>1, <2>2, <2>3
<1>10. QED  BY <1>5, <1>6, <1>8, <1>9 DEF Next

\* Between the second look at the cache and the answer nobody records a miss: a
\* contact without a photo is asked for once until the memory of it has passed.
THEOREM MissesSafe == Spec => MissesAreApart
<1>1. LockInv /\ [Next]_vars => [\A r \in Requests : AvatarMissed(r) /\ ~reqs[r].fresh => missed[reqs[r].of] = 0]_vars
  BY DEF LockInv, AvatarMissed, Holds
<1>2. QED  BY MediaAlways, LockInit, LockStep, <1>1, PTL DEF Spec, MissesAreApart
=============================================================================
