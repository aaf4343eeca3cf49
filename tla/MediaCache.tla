----------------------------- MODULE MediaCache -----------------------------
(***************************************************************************)
(* Pictures and files on demand: GET /media and GET /avatar of the service *)
(* (main.py, bridge.py) and the downloads of the bridge (downloadMedia in  *)
(* main.go).                                                               *)
(*                                                                         *)
(* A blob is a file in a directory both processes see.  The service looks  *)
(* for the file the row names, asks the bridge if it is not there, looks   *)
(* again, and then where last_download_info points: a field of the one     *)
(* client object, written by every answer to any download.  The bridge     *)
(* finds the file or writes it, in place, for a request or by itself when  *)
(* a message arrives, under a name of its own; the row of a document keeps *)
(* the sender's, so the service does not find it by the row.  Avatars are  *)
(* fetched one at a time, and a contact without one is remembered for a    *)
(* while.                                                                  *)
(*                                                                         *)
(* Left out: the type of a blob, the second try of an image the bridge     *)
(* downloads by itself, the checks of the token, another file that has the *)
(* name the sender gave a document (media_path looks for that name alone). *)
(***************************************************************************)
EXTENDS Naturals, Sequences, FiniteSets

CONSTANTS
  Requests,       \* GET requests, each made at most once
  Blobs,          \* media messages of the archive
  Named,          \* those whose row has the name the bridge saves under
  Contacts,
  None,
  TTL,            \* how long a missing avatar is remembered (15 minutes)
  MaxTime, MaxFaults, MaxAuto     \* bounds; Auto: downloads the bridge makes by itself

\* Up to two attempts of a request, and the bridge's own download.
Jobs == (Requests \X {1, 2}) \union (Blobs \X {0})

ASSUME MediaAssumption ==
  /\ None \notin Blobs \union Contacts \union Jobs /\ Blobs \intersect Contacts = {}
  /\ Named \subseteq Blobs /\ {TTL, MaxTime, MaxFaults, MaxAuto} \subseteq Nat

VARIABLES
  disk,           \* per blob: no file, an incomplete or a whole one
  writer,         \* per blob: the job that opened its file last
  jobs,           \* downloads of the bridge
  info,           \* last_download_info: a blob, or None
  reqs,           \* requests: what for, how far, what was served
  lock,           \* requests that hold _avatar_fetch_lock (the first) or wait
  missed,         \* _avatar_miss_cache: the time that is left
  time, faults

files == <<disk, writer>>
avatars == <<lock, missed>>
bounds == <<time, faults>>
vars == <<files, jobs, info, reqs, avatars, bounds>>

BlobOf(j) == IF j[2] = 0 THEN j[1] ELSE reqs[j[1]].of
Idle == [stage |-> "idle", of |-> None, try |-> 0, fresh |-> FALSE,
         broke |-> FALSE, got |-> None, how |-> "none"]
Fault == faults < MaxFaults /\ faults' = faults + 1 /\ UNCHANGED time

Init ==
  /\ disk = [b \in Blobs |-> "none"] /\ writer = [b \in Blobs |-> None]
  /\ jobs = [j \in Jobs |-> "none"] /\ info = None
  /\ reqs = [r \in Requests |-> Idle]
  /\ lock = <<>> /\ missed = [c \in Contacts |-> 0]
  /\ time = 0 /\ faults = 0

Ends(r, how, got) == reqs' = [reqs EXCEPT ![r].stage = "ended", ![r].how = how, ![r].got = got]

-----------------------------------------------------------------------------
(* The bridge *)

\* A message with media arrives, a document with the sender's name for it too.
AutoDownload(b) ==
  /\ jobs[<<b, 0>>] = "none" /\ Cardinality({c \in Blobs : jobs[<<c, 0>>] # "none"}) < MaxAuto
  /\ jobs' = [jobs EXCEPT ![<<b, 0>>] = "asked"]
  /\ UNCHANGED <<files, info, reqs, avatars, bounds>>

\* os.Stat, before anything is fetched.
FindFile(j) ==
  /\ jobs[j] = "asked"
  /\ jobs' = [jobs EXCEPT ![j] = IF disk[BlobOf(j)] # "none" THEN "done" ELSE "fetching"]
  /\ UNCHANGED <<files, info, reqs, avatars, bounds>>

\* WriteFile truncates what is there.
OpenFile(j) ==
  /\ jobs[j] = "fetching" /\ jobs' = [jobs EXCEPT ![j] = "writing"]
  /\ LET b == BlobOf(j)
     IN disk' = [disk EXCEPT ![b] = "partial"] /\ writer' = [writer EXCEPT ![b] = j]
  /\ UNCHANGED <<info, reqs, avatars, bounds>>

\* The file is whole when the one who truncated it last is through.
WriteFile(j) ==
  /\ jobs[j] = "writing" /\ jobs' = [jobs EXCEPT ![j] = "done"]
  /\ LET b == BlobOf(j) IN disk' = [disk EXCEPT ![b] = IF writer[b] = j THEN "whole" ELSE @]
  /\ UNCHANGED <<writer, info, reqs, avatars, bounds>>

\* Not connected, not found, not fetched, or not written to the end.
DownloadFails(j) ==
  /\ jobs[j] \in {"asked", "fetching", "writing"} /\ jobs' = [jobs EXCEPT ![j] = "failed"]
  /\ Fault
  /\ UNCHANGED <<files, info, reqs, avatars>>

BridgeCrash ==
  /\ jobs' = [j \in Jobs |-> IF jobs[j] = "none" THEN "none" ELSE "lost"]
  /\ Fault
  /\ UNCHANGED <<files, info, reqs, avatars>>

-----------------------------------------------------------------------------
(* GET /media *)

OnDisk(b) == b \in Named /\ disk[b] # "none"
Post(r, try) == jobs' = [jobs EXCEPT ![<<r, try>>] = "asked"]

media_file(r, b) ==
  /\ reqs[r] = Idle
  /\ IF OnDisk(b)
     THEN /\ reqs' = [reqs EXCEPT ![r] = [Idle EXCEPT !.stage = "ended", !.of = b, !.got = b, !.how = disk[b]]]
          /\ UNCHANGED jobs
     ELSE reqs' = [reqs EXCEPT ![r] = [Idle EXCEPT !.stage = "waiting", !.of = b, !.try = 1]] /\ Post(r, 1)
  /\ UNCHANGED <<files, info, avatars, bounds>>

\* After the download: the file of the row, else the one last_download_info names.
Serve(r, last) ==
  LET b == reqs[r].of
  IN IF OnDisk(b) THEN Ends(r, disk[b], b)
     ELSE IF last # None THEN Ends(r, disk[last], last) ELSE Ends(r, "none", None)

Waits(r) == reqs[r].stage = "waiting" /\ reqs[r].of \in Blobs
Job(r) == jobs[<<r, reqs[r].try>>]

\* Mutant: the answer is kept, and looked at when the request has its turn.
InfoReadLater(r) ==
  \/ /\ Waits(r) /\ Job(r) \in {"done", "failed"}
     /\ info' = (IF Job(r) = "done" THEN reqs[r].of ELSE None)
     /\ reqs' = [reqs EXCEPT ![r].stage = "answered"]
     /\ UNCHANGED <<files, jobs, avatars, bounds>>
  \/ /\ reqs[r].stage = "answered"
     /\ Serve(r, info)
     /\ UNCHANGED <<files, jobs, info, avatars, bounds>>

\* No other request runs between the answer and the look at the field.
DownloadAnswered(r) ==
  /\ Waits(r) /\ Job(r) \in {"done", "failed"}
  /\ info' = (IF Job(r) = "done" THEN reqs[r].of ELSE None)
  /\ Serve(r, info')
  /\ UNCHANGED <<files, jobs, avatars, bounds>>

Broken(r) == IF Job(r) = "lost" THEN UNCHANGED bounds ELSE Fault

\* The connection broke: once more, without looking whether it was done.
DownloadRetried(r) ==
  /\ Waits(r) /\ reqs[r].try = 1
  /\ reqs' = [reqs EXCEPT ![r].try = 2] /\ Post(r, 2)
  /\ Broken(r)
  /\ UNCHANGED <<files, info, avatars>>

\* The second break, or 120 seconds without an answer: the field is what an
\* earlier answer left.
DownloadBreaks(r) ==
  /\ Waits(r) /\ (Job(r) = "lost" => reqs[r].try = 2)
  /\ LET b == reqs[r].of
         got == IF OnDisk(b) THEN b ELSE info
     IN reqs' = [reqs EXCEPT ![r] = [@ EXCEPT !.stage = "ended", !.broke = TRUE, !.got = got,
                                              !.how = IF got = None THEN "none" ELSE disk[got]]]
  /\ Broken(r)
  /\ UNCHANGED <<files, jobs, info, avatars>>

-----------------------------------------------------------------------------
(* GET /avatar *)

contact_avatar(r, c, fresh) ==
  /\ reqs[r] = Idle
  /\ LET asked == [Idle EXCEPT !.of = c, !.fresh = fresh]
         known == ~fresh /\ missed[c] > 0
     IN /\ reqs' = [reqs EXCEPT ![r] = [asked EXCEPT !.stage = IF known THEN "ended" ELSE "waiting"]]
        /\ lock' = IF known THEN lock ELSE Append(lock, r)
  /\ UNCHANGED <<files, jobs, info, missed, bounds>>

Holds(r, stage) == lock # <<>> /\ Head(lock) = r /\ reqs[r].stage = stage
Release == lock' = Tail(lock)

\* Mutant: the cache is not looked at again.
NoSecondLook(r) ==
  /\ Holds(r, "waiting") /\ reqs' = [reqs EXCEPT ![r].stage = "fetching"]
  /\ UNCHANGED <<files, jobs, info, lock, missed, bounds>>

\* What the one before has found out is known by now.
LockTaken(r) ==
  /\ Holds(r, "waiting")
  /\ IF ~reqs[r].fresh /\ missed[reqs[r].of] > 0
     THEN Ends(r, "none", None) /\ Release
     ELSE reqs' = [reqs EXCEPT ![r].stage = "fetching"] /\ UNCHANGED lock
  /\ UNCHANGED <<files, jobs, info, missed, bounds>>

AvatarShown(r) ==
  /\ Holds(r, "fetching") /\ Release
  /\ Ends(r, "whole", reqs[r].of)
  /\ UNCHANGED <<files, jobs, info, missed, bounds>>

\* No photo, or no answer: both are a miss.
AvatarMissed(r) ==
  /\ Holds(r, "fetching") /\ Release
  /\ missed' = [missed EXCEPT ![reqs[r].of] = TTL]
  /\ Ends(r, "none", None)
  /\ UNCHANGED <<files, jobs, info, bounds>>

\* Mutant: the lock is released where the answer is looked at.
RaisesUnreleased(r) ==
  /\ Holds(r, "fetching")
  /\ Ends(r, "none", None)
  /\ Fault
  /\ UNCHANGED <<files, jobs, info, avatars>>

\* The second attempt breaks as well, with an error nothing catches.
AvatarRaises(r) ==
  /\ Holds(r, "fetching") /\ Release
  /\ Ends(r, "none", None)
  /\ Fault
  /\ UNCHANGED <<files, jobs, info, missed>>

Tick ==
  /\ time < MaxTime /\ time' = time + 1
  /\ missed' = [c \in Contacts |-> IF missed[c] = 0 THEN 0 ELSE missed[c] - 1]
  /\ UNCHANGED <<files, jobs, info, reqs, lock, faults>>

-----------------------------------------------------------------------------
Download(j) == FindFile(j) \/ OpenFile(j) \/ WriteFile(j) \/ DownloadFails(j)
Handle(r) ==
  \/ DownloadAnswered(r) \/ DownloadRetried(r) \/ DownloadBreaks(r)
  \/ LockTaken(r) \/ AvatarShown(r) \/ AvatarMissed(r) \/ AvatarRaises(r)

Next ==
  \/ \E b \in Blobs : AutoDownload(b)
  \/ \E j \in Jobs : Download(j)
  \/ BridgeCrash \/ Tick
  \/ \E r \in Requests : \/ \E b \in Blobs : media_file(r, b)
                         \/ \E c \in Contacts, fresh \in BOOLEAN : contact_avatar(r, c, fresh)
                         \/ Handle(r)

\* The bridge works on what it was asked, WhatsApp answers or fails, and the
\* service's event loop runs what is ready; a call without an answer ends in time.
Spec == Init /\ [][Next]_vars
FairSpec == /\ Spec
            /\ \A j \in Jobs : WF_vars(Download(j))
            /\ \A r \in Requests : WF_vars(Handle(r))

-----------------------------------------------------------------------------
(* Properties *)

TypeOK ==
  /\ disk \in [Blobs -> {"none", "partial", "whole"}]
  /\ jobs \in [Jobs -> {"none", "asked", "fetching", "writing", "done", "failed", "lost"}]
  /\ info \in Blobs \union {None}
  /\ \A b \in Blobs : writer[b] \in Jobs \union {None}
  /\ \A r \in Requests : /\ reqs[r].stage \in {"idle", "waiting", "fetching", "ended"}
                         /\ reqs[r].try = 0 \/ Job(r) # "none"
  /\ \A c \in Contacts : missed[c] \in 0..TTL
  /\ \A i \in 1..Len(lock) : reqs[lock[i]].stage \in {"waiting", "fetching"}

\* A media request whose download the bridge has answered gets the blob it asked
\* for, under whatever name, or nothing if that download failed: the shared field
\* is never the answer to somebody else by then.
AnsweredGetTheirOwn ==
  \A r \in Requests : reqs[r].stage = "ended" /\ reqs[r].of \in Blobs /\ ~reqs[r].broke =>
    \/ reqs[r].got = reqs[r].of
    \/ reqs[r].got = None /\ reqs[r].try > 0 /\ Job(r) \in {"failed", "lost"}

\* However many requests have waited for the lock, a contact without a photo is
\* asked for once until the memory of it has passed, but for explicit refreshes.
MissesAreApart ==
  [][\A r \in Requests : AvatarMissed(r) /\ ~reqs[r].fresh => missed[reqs[r].of] = 0]_vars

\* Every request is answered, whatever fails (each is made once).
RequestsEnd == <>[](\A r \in Requests : reqs[r].stage \in {"idle", "ended"})

\* Not kept by the code: a request whose download was never answered gets the blob
\* of an earlier one if its row has another name; a file that is there is whole and
\* stays so.
EverybodyGetsTheirOwn ==
  \A r \in Requests : reqs[r].stage = "ended" => reqs[r].got \in {reqs[r].of, None}
WholeStaysWhole == [][\A b \in Blobs : disk[b] = "whole" => disk'[b] = "whole"]_vars
ServedWhole == \A r \in Requests : reqs[r].how # "partial"
=============================================================================
