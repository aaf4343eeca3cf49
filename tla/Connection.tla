----------------------------- MODULE Connection -----------------------------
(***************************************************************************)
(* The bridge's connection to WhatsApp: the connect and pairing loop of    *)
(* main, the goroutine that reconnects, the two channels between them and  *)
(* the event handler, and the script that restarts the process.            *)
(*                                                                         *)
(* whatsmeow owns the socket.  It reports a loss after it happened, may    *)
(* reconnect by itself before the bridge does, and ends a QR session when  *)
(* its codes run out.  A client that WhatsApp turns away is reported as    *)
(* ClientOutdated, without a Disconnected after it and without attempts of *)
(* whatsmeow's own.  A pairing is kept in whatsapp.db and outlives the     *)
(* process; everything else is lost with it.                               *)
(*                                                                         *)
(* Left out: the QR codes themselves, the length of the pauses, errors     *)
(* before the first connection attempt.                                    *)
(***************************************************************************)
EXTENDS Integers

CONSTANTS
  MaxRetries,   \* maxRetries, connection attempts of one process
  MaxBackoff,   \* doublings of the pause from 5 s to maxBackoff
  MaxMishaps    \* bound: losses, outages, log-outs, signals, crashes

ASSUME ConnectionAssumption ==
  /\ MaxRetries \in Nat \ {0}
  /\ MaxBackoff \in Nat
  /\ MaxMishaps \in Nat

\* What whatsmeow reports when the socket is gone.
Signalled == {"Disconnected", "ConnectFailure", "StreamError"}
Reports   == Signalled \union {"StreamReplaced", "LoggedOut", "ClientOutdated"}

VARIABLES
  script,         \* run-supervised.sh: "running", "sleeping", "stopped"
  main,           \* control state of main
  attempt,        \* its loop variable
  rec,            \* control state of the reconnecting goroutine
  backoff,        \* reconnectBackoff, in doublings
  reconnectChan,  \* a signal is in the channel
  exitChan,       \* an operating-system signal is in the channel
  timers,         \* goroutines asleep for 30 s after StreamReplaced
  reports,        \* events not handed to the event handler yet
  socket,         \* "open": client.IsConnected(); "closed"; or "refused",
                  \* closed by a WhatsApp that turned the client away
  paired,         \* client.Store.ID is set
  net,            \* WhatsApp can be reached
  mishaps

process == <<main, attempt, rec, backoff, reconnectChan, exitChan, timers, reports>>
world   == <<script, net, mishaps>>
vars    == <<process, socket, paired, world>>

TypeOK ==
  /\ script \in {"running", "sleeping", "stopped"}
  /\ main \in {"connect", "scan", "wait", "pause", "settle", "serve", "exited"}
  /\ attempt \in 1..MaxRetries
  /\ rec \in {"off", "select", "sleep", "connect", "gone"}
  /\ backoff \in 0..MaxBackoff
  /\ reconnectChan \in BOOLEAN /\ exitChan \in BOOLEAN
  /\ timers \in Nat
  /\ reports \subseteq Reports
  /\ socket \in {"open", "closed", "refused"}
  /\ paired \in BOOLEAN /\ net \in BOOLEAN
  /\ mishaps \in 0..MaxMishaps

Init ==
  /\ script = "running" /\ main = "connect" /\ attempt = 1 /\ rec = "off"
  /\ backoff = 0 /\ reconnectChan = FALSE /\ exitChan = FALSE /\ timers = 0
  /\ reports = {} /\ socket = "closed"
  /\ paired \in BOOLEAN
  /\ net = TRUE /\ mishaps = 0

-----------------------------------------------------------------------------
(* The main goroutine. *)

\* The process is gone, and with it all but the pairing; the script goes on
\* by the exit code.
ProcessEnds(then) ==
  /\ main' = "exited" /\ script' = then
  /\ attempt' = 1 /\ rec' = "off" /\ backoff' = 0
  /\ reconnectChan' = FALSE /\ exitChan' = FALSE /\ timers' = 0 /\ reports' = {}
  /\ socket' = "closed"
  /\ UNCHANGED <<paired, net>>

\* Every return of main: exit code 0.
Exit == ProcessEnds("sleeping") /\ UNCHANGED mishaps

\* A failed attempt pauses before the next one; the last one gives up.
AttemptFails(left) ==
  \/ attempt = MaxRetries /\ Exit
  \/ /\ attempt < MaxRetries
     /\ main' = "pause" /\ attempt' = attempt + 1 /\ socket' = left
     /\ UNCHANGED <<rec, backoff, reconnectChan, exitChan, timers, reports, paired, world>>

\* client.Connect() fails when WhatsApp is out of reach, or already connected.
ConnectWorks == net /\ socket # "open"

FirstConnect ==
  /\ main = "connect"
  /\ \/ /\ ConnectWorks
        /\ socket' = "open"
        /\ main' = IF paired THEN "settle" ELSE "scan"
        /\ UNCHANGED <<attempt, rec, backoff, reconnectChan, exitChan, timers, reports, paired, world>>
     \/ ~ConnectWorks /\ AttemptFails(socket)

\* "success" on the QR channel.
ScanSucceeds ==
  /\ main = "scan" /\ paired
  /\ main' = "settle"
  /\ UNCHANGED <<attempt, rec, backoff, reconnectChan, exitChan, timers, reports, socket, paired, world>>

\* "timeout", also when a pairing has just succeeded: main waits on connected
\* and ctx.Done, and only the latter can come.
ScanEnds ==
  /\ main = "scan"
  /\ main' = "wait"
  /\ UNCHANGED <<attempt, rec, backoff, reconnectChan, exitChan, timers, reports, socket, paired, world>>

\* The five minutes are over: client.Disconnect().
ContextDone == main = "wait" /\ AttemptFails("closed")

Retry ==
  /\ main = "pause"
  /\ main' = "connect"
  /\ UNCHANGED <<attempt, rec, backoff, reconnectChan, exitChan, timers, reports, socket, paired, world>>

\* Mutant: wait until the connection is there.
SettleWaits ==
  /\ main = "settle" /\ socket = "open"
  /\ main' = "serve" /\ rec' = "select"
  /\ UNCHANGED <<attempt, backoff, reconnectChan, exitChan, timers, reports, socket, paired, world>>

\* After two seconds: serve, or give up.
Settle ==
  /\ main = "settle"
  /\ \/ /\ socket = "open"
        /\ main' = "serve" /\ rec' = "select"
        /\ UNCHANGED <<attempt, backoff, reconnectChan, exitChan, timers, reports, socket, paired, world>>
     \/ socket # "open" /\ Exit

MainExits == main = "serve" /\ exitChan /\ Exit

-----------------------------------------------------------------------------
(* The goroutine that reconnects. *)

RecWakes ==
  /\ rec = "select" /\ reconnectChan
  /\ rec' = "sleep" /\ reconnectChan' = FALSE
  /\ UNCHANGED <<main, attempt, backoff, exitChan, timers, reports, socket, paired, world>>

RecChecks ==
  /\ rec = "sleep"
  /\ IF socket = "open" THEN rec' = "select" /\ backoff' = 0
                        ELSE rec' = "connect" /\ UNCHANGED backoff
  /\ UNCHANGED <<main, attempt, reconnectChan, exitChan, timers, reports, socket, paired, world>>

\* Mutant: a failure does not signal the next attempt.
RecTriesOnce ==
  /\ rec = "connect"
  /\ rec' = "select"
  /\ IF ConnectWorks
       THEN socket' = "open" /\ backoff' = 0
       ELSE /\ backoff' = IF backoff < MaxBackoff THEN backoff + 1 ELSE backoff
            /\ UNCHANGED socket
  /\ UNCHANGED <<main, attempt, reconnectChan, exitChan, timers, reports, paired, world>>

RecConnects ==
  /\ rec = "connect"
  /\ rec' = "select"
  /\ IF ConnectWorks
       THEN socket' = "open" /\ backoff' = 0 /\ UNCHANGED reconnectChan
       ELSE /\ backoff' = IF backoff < MaxBackoff THEN backoff + 1 ELSE backoff
            /\ reconnectChan' = TRUE
            /\ UNCHANGED socket
  /\ UNCHANGED <<main, attempt, exitChan, timers, reports, paired, world>>

\* The second reader of exitChan.
RecExits ==
  /\ rec = "select" /\ exitChan
  /\ rec' = "gone" /\ exitChan' = FALSE
  /\ UNCHANGED <<main, attempt, backoff, reconnectChan, timers, reports, socket, paired, world>>

-----------------------------------------------------------------------------
(* The event handler. *)

\* Mutant: no case for StreamReplaced.
HandleLosses(e) ==
  /\ e \in reports
  /\ reports' = reports \ {e}
  /\ reconnectChan' = (reconnectChan \/ e \in Signalled)
  /\ UNCHANGED <<main, attempt, rec, backoff, exitChan, timers, socket, paired, world>>

\* LoggedOut and ClientOutdated are logged and nothing else.
Handle(e) ==
  /\ e \in reports
  /\ reports' = reports \ {e}
  /\ reconnectChan' = (reconnectChan \/ e \in Signalled)
  /\ timers' = IF e = "StreamReplaced" THEN timers + 1 ELSE timers
  /\ UNCHANGED <<main, attempt, rec, backoff, exitChan, socket, paired, world>>

TimerFires ==
  /\ timers > 0
  /\ timers' = timers - 1
  /\ reconnectChan' = TRUE
  /\ UNCHANGED <<main, attempt, rec, backoff, exitChan, reports, socket, paired, world>>

-----------------------------------------------------------------------------
(* whatsmeow, WhatsApp and the user. *)

Mishap == mishaps < MaxMishaps /\ mishaps' = mishaps + 1

\* The socket is lost; the report follows.
Lose(e) ==
  /\ socket = "open" /\ e \notin reports /\ (e = "LoggedOut" => paired)
  /\ Mishap
  /\ socket' = IF e = "ClientOutdated" THEN "refused" ELSE "closed"
  /\ reports' = reports \union {e}
  /\ paired' = (paired /\ e # "LoggedOut")
  /\ UNCHANGED <<main, attempt, rec, backoff, reconnectChan, exitChan, timers, script, net>>

\* The user scans the code.  WhatsApp closes the first socket afterwards.
Pair ==
  /\ main \in {"scan", "wait"} /\ socket = "open" /\ ~paired
  /\ paired' = TRUE
  /\ socket' \in {"open", "closed"}
  /\ UNCHANGED <<process, world>>

\* whatsmeow reconnects a paired client by itself after a loss, but not one
\* that was turned away.
AutoReconnect ==
  /\ main # "exited" /\ (main = "connect" => attempt > 1)
  /\ paired /\ net /\ socket = "closed"
  /\ socket' = "open"
  /\ UNCHANGED <<process, paired, world>>

Outage ==
  /\ net /\ Mishap
  /\ net' = FALSE
  /\ UNCHANGED <<process, socket, paired, script>>

Recovery ==
  /\ ~net
  /\ net' = TRUE
  /\ UNCHANGED <<process, socket, paired, script, mishaps>>

-----------------------------------------------------------------------------
(* Signals and the script. *)

\* Before signal.Notify a signal kills the process with code 130 or 143, the
\* codes the script stops at; afterwards it goes to exitChan.
Signal ==
  /\ main # "exited" /\ Mishap
  /\ \/ main # "serve" /\ ProcessEnds("stopped")
     \/ /\ main = "serve" /\ exitChan' = TRUE
        /\ UNCHANGED <<main, attempt, rec, backoff, reconnectChan, timers, reports, socket, paired, script, net>>

\* A panic or a kill: any other exit code.
Die == main # "exited" /\ Mishap /\ ProcessEnds("sleeping")

Restart ==
  /\ script = "sleeping"
  /\ script' = "running" /\ main' = "connect"
  /\ UNCHANGED <<attempt, rec, backoff, reconnectChan, exitChan, timers, reports, socket, paired, net, mishaps>>

-----------------------------------------------------------------------------
Main == FirstConnect \/ ScanSucceeds \/ ScanEnds \/ ContextDone \/ Retry \/ Settle
Reconnector == RecWakes \/ RecChecks \/ RecConnects
Handler == TimerFires \/ \E e \in Reports : Handle(e)

Next ==
  \/ Main \/ MainExits \/ Reconnector \/ RecExits \/ Handler
  \/ \E e \in Reports : Lose(e)
  \/ Pair \/ AutoReconnect \/ Outage \/ Recovery
  \/ Signal \/ Die \/ Restart

Spec == Init /\ [][Next]_vars

\* Goroutines are scheduled, sleeps and the QR session end, the script goes
\* on.  Nothing is assumed of the network, the user or whatsmeow's own retries.
Fairness ==
  /\ WF_vars(Main) /\ WF_vars(MainExits \/ RecExits)
  /\ WF_vars(Reconnector)
  /\ \A e \in Reports : WF_vars(Handle(e))
  /\ WF_vars(TimerFires)
  /\ WF_vars(Restart)

FairSpec == Spec /\ Fairness

-----------------------------------------------------------------------------
(* Properties *)

Serving == main = "serve" /\ paired /\ rec # "gone"

\* A channel of capacity one and sends that give up when it is full lose no
\* reconnection: while the socket of a serving bridge is down, a signal, an
\* event, a timer or the goroutine itself will see to it (main.go 3050-3095).
\* The exception is the code's own: a client that was turned away stays down
\* (main.go 3092-3093) until someone rebuilds it.
LossIsNoticed ==
  Serving /\ socket = "closed" =>
    \/ reconnectChan
    \/ rec \in {"sleep", "connect"}
    \/ timers > 0
    \/ reports \intersect (Signalled \union {"StreamReplaced"}) # {}

\* Once WhatsApp stays reachable a lost connection comes back, whatever was
\* lost, replaced or reconnected behind the goroutine's back (3220-3261), unless
\* WhatsApp turned the client away.
ConnectionComesBack ==
  <>[]net => (Serving ~> (socket \in {"open", "refused"} \/ ~Serving))

\* The script's promise: the bridge keeps "re-presenting a FRESH QR code until
\* the account is paired", through failed attempts, timeouts and crashes.  And a
\* pairing is never wasted: even when it races the end of the QR session or the
\* socket WhatsApp closes after it, the bridge ends up serving.
PairingGoesThrough ==
  <>[]net =>
    /\ (~paired /\ main # "serve") ~> (main = "scan" \/ paired \/ script = "stopped")
    /\ paired ~> (main = "serve" \/ ~paired \/ script = "stopped")

\* "Press Ctrl+C to disconnect and exit." (main.go 3217): a signal that
\* reached the serving bridge ends it.  The goroutine may take it away.
SignalEnds == exitChan ~> main = "exited"
=============================================================================
