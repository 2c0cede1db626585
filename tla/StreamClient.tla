---------------------------- MODULE StreamClient ----------------------------
(***************************************************************************)
(* CombinedStreamClient: one Binance combined-stream socket with its       *)
(* reconnect timer, its connection watchdog and its per-stream watchdog.   *)
(*                                                                         *)
(* One unit of time is the period of the per-stream check (60 s).  Ages    *)
(* count whole periods and saturate one past the threshold they are        *)
(* compared to.  Every reconnect delay (computeBackoffDelay, at most 30 s) *)
(* fits in one period, so `attempt`, which only lengthens it, is left out. *)
(***************************************************************************)
EXTENDS Naturals, FiniteSets

CONSTANTS
  Streams,        \* the streams subscribed on this socket
  Options,        \* ways to construct the client: [perStream, staleAfter]
  SilentAfter,    \* staleTimeoutMs in whole periods
  MaxReconnects   \* MAX_PER_STREAM_RECONNECTS

\* What the constants are; the module that instantiates this one assumes it.
ConstantsOK ==
  /\ Streams # {}
  /\ Options \subseteq [perStream : BOOLEAN, staleAfter : Nat]
  /\ SilentAfter \in Nat \ {0} /\ MaxReconnects \in Nat \ {0}

VARIABLES
  opts,         \* this.opts: perStreamStaleMs is set (klines) or not (liquidations),
                \* and in whole periods, quiet when older
  conn,         \* the socket: connecting, open, closing, backoff, stopped
  closedByUser, \* this.closedByUser
  status,       \* last state passed to onStatus
  age,          \* periods since lastSeenByStream of each stream
  silence,      \* periods since the stale timer was last armed
  staleArmed,   \* this.staleTimer is pending
  watchArmed,   \* this.perStreamTimer is running
  checkDue,     \* the interval has elapsed and its callback has not run yet
  reconnects,   \* this.perStreamReconnects
  gaveUp,       \* this.gaveUpOnStreams
  served,       \* external: streams the exchange is delivering
  mute,         \* external: the open connection carries nothing at all
  upFor         \* history: periods since the socket opened

socket   == <<opts, conn, closedByUser, status>>
stale    == <<silence, staleArmed>>
watch    == <<watchArmed, checkDue>>
verdict  == <<reconnects, gaveUp>>
world    == <<served, mute>>
vars     == <<socket, age, stale, watch, verdict, world, upFor>>

Least(a, b) == IF a < b THEN a ELSE b

\* Mutant of Quiet: the connection-level view, silent only when all are.
QuietWhenAllAre ==
  IF \A s \in Streams : age[s] > opts.staleAfter THEN Streams ELSE {}

\* staleStreams.
Quiet == {s \in Streams : age[s] > opts.staleAfter}

TypeOK ==
  /\ opts \in Options
  /\ conn \in {"connecting", "open", "closing", "backoff", "stopped"}
  /\ closedByUser \in BOOLEAN
  /\ status \in {"connecting", "open", "error", "closed", "reconnecting"}
  /\ age \in [Streams -> 0 .. opts.staleAfter + 1]
  /\ silence \in 0 .. SilentAfter
  /\ staleArmed \in BOOLEAN
  /\ watchArmed \in BOOLEAN
  /\ checkDue \in BOOLEAN
  /\ reconnects \in 0 .. MaxReconnects
  /\ gaveUp \in BOOLEAN
  /\ served \in SUBSET Streams
  /\ mute \in BOOLEAN
  /\ upFor \in 0 .. opts.staleAfter + 1

\* subscribeKlines and subscribeLiquidations construct the client and connect it.
Init ==
  /\ opts \in Options
  /\ conn = "connecting"
  /\ closedByUser = FALSE
  /\ status = "connecting"
  /\ age = [s \in Streams |-> 0]
  /\ silence = 0
  /\ staleArmed = FALSE
  /\ watchArmed = FALSE
  /\ checkDue = FALSE
  /\ reconnects = 0
  /\ gaveUp = FALSE
  /\ served \in SUBSET Streams
  /\ mute = FALSE
  /\ upFor = 0
-----------------------------------------------------------------------------
(* The life of the socket. *)

\* The reconnect timer calls connect().
Connect ==
  /\ conn = "backoff"
  /\ conn' = "connecting"
  /\ closedByUser' = FALSE
  /\ status' = "connecting"
  /\ UNCHANGED <<opts, age, stale, watch, verdict, world, upFor>>

\* armStaleWatch: whatever timer was pending is replaced by a new one.
ArmStale == staleArmed' = TRUE /\ silence' = 0

\* Mutant of ArmPerStream: the stamps of the previous connection are kept.
ArmPerStreamOldStamps ==
  /\ watchArmed' = opts.perStream
  /\ checkDue' = FALSE
  /\ age' = age

\* armPerStreamWatch: every stream starts its clock at connection time.
ArmPerStream ==
  /\ watchArmed' = opts.perStream
  /\ checkDue' = FALSE
  /\ age' = IF opts.perStream THEN [s \in Streams |-> 0] ELSE age

\* Mutant of Opened: the connection watchdog waits for the first message.
OpenedUnwatched ==
  /\ conn = "connecting"
  /\ conn' = "open"
  /\ status' = "open"
  /\ ArmPerStream
  /\ mute' = FALSE
  /\ upFor' = 0
  /\ UNCHANGED <<opts, closedByUser, stale, verdict, served>>

\* 'open'.
Opened ==
  /\ conn = "connecting"
  /\ conn' = "open"
  /\ status' = "open"
  /\ ArmStale
  /\ ArmPerStream
  /\ mute' = FALSE
  /\ upFor' = 0
  /\ UNCHANGED <<opts, closedByUser, verdict, served>>

\* 'message' on stream s; frames already received still come out while closing.
Message(s) ==
  /\ conn \in {"open", "closing"} /\ ~mute
  /\ s \in served
  /\ age[s] > 0 \/ silence > 0
  /\ age' = [age EXCEPT ![s] = 0]
  /\ ArmStale
  /\ UNCHANGED <<socket, watch, verdict, world, upFor>>

\* 'ping' and 'pong' arm the connection watchdog only.
Ping ==
  /\ conn \in {"open", "closing"} /\ ~mute
  /\ silence > 0
  /\ ArmStale
  /\ UNCHANGED <<socket, age, watch, verdict, world, upFor>>

\* 'error': reported; the 'close' that follows does the work.
Errored ==
  /\ conn \in {"connecting", "open"}
  /\ conn' = "closing"
  /\ status' = "error"
  /\ UNCHANGED <<opts, closedByUser, age, stale, watch, verdict, world, upFor>>

\* The peer or the network ends the connection.
Dropped ==
  /\ conn \in {"connecting", "open"}
  /\ conn' = "closing"
  /\ UNCHANGED <<opts, closedByUser, status, age, stale, watch, verdict, world, upFor>>

ClearWatchdogs == staleArmed' = FALSE /\ watchArmed' = FALSE /\ checkDue' = FALSE

\* Mutant of Closed: reconnects whoever closed the socket.
ClosedAlwaysReconnects ==
  /\ conn = "closing"
  /\ ClearWatchdogs
  /\ conn' = "backoff"
  /\ status' = "reconnecting"
  /\ UNCHANGED <<opts, closedByUser, age, silence, verdict, world, upFor>>

\* 'close': the watchdogs stop and, unless close() was called, the reconnect
\* timer starts.
Closed ==
  /\ conn = "closing"
  /\ ClearWatchdogs
  /\ conn' = IF closedByUser THEN "stopped" ELSE "backoff"
  /\ status' = IF closedByUser THEN "closed" ELSE "reconnecting"
  /\ UNCHANGED <<opts, closedByUser, age, silence, verdict, world, upFor>>

\* close(): watchdogs and reconnect timer cleared, the socket closes.
UserClose ==
  /\ ~closedByUser
  /\ closedByUser' = TRUE
  /\ ClearWatchdogs
  /\ conn' = IF conn = "backoff" THEN "stopped" ELSE "closing"
  /\ UNCHANGED <<opts, status, age, silence, verdict, world, upFor>>
-----------------------------------------------------------------------------
(* The watchdogs. *)

\* socket.terminate(): no effect on a socket that is closing already.
Terminate == conn' = IF conn = "open" THEN "closing" ELSE conn

\* The connection watchdog: nothing at all for staleTimeoutMs.
StaleFires ==
  /\ staleArmed
  /\ silence = SilentAfter
  /\ staleArmed' = FALSE
  /\ Terminate
  /\ UNCHANGED <<opts, closedByUser, status, age, silence, watch, verdict, world, upFor>>

\* The interval's callback.  A stream that is served speaks every second or
\* two, so at the check its stamp is fresh.
Checked ==
  /\ checkDue
  /\ mute \/ conn # "open" \/ \A s \in served : age[s] = 0
  /\ checkDue' = FALSE
  /\ UNCHANGED <<opts, closedByUser, status, age, stale, watchArmed, world, upFor>>

\* Every stream has spoken: the count of forced reconnects starts over.
CheckHealthy ==
  /\ Checked
  /\ Quiet = {}
  /\ reconnects' = 0
  /\ gaveUp' = FALSE
  /\ UNCHANGED <<conn>>

\* Mutant of MayForce: one try more than the cap.
MayForceOneMore == Quiet # {} /\ reconnects <= MaxReconnects

\* shouldForceReconnect.
MayForce == Quiet # {} /\ reconnects < MaxReconnects

\* The whole socket is rebuilt for the streams that went quiet.
CheckForces ==
  /\ Checked
  /\ MayForce
  /\ reconnects' = reconnects + 1
  /\ Terminate
  /\ UNCHANGED gaveUp

\* An upstream outage: said once, the socket is left alone.
CheckGivesUp ==
  /\ Checked
  /\ Quiet # {} /\ ~MayForce
  /\ gaveUp' = TRUE
  /\ UNCHANGED <<reconnects, conn>>
-----------------------------------------------------------------------------
(* The world. *)

\* One period passes on an open connection, after the callbacks that were due.
Elapse ==
  /\ conn = "open"
  /\ ~checkDue
  /\ ~(staleArmed /\ silence = SilentAfter)
  /\ age' = [s \in Streams |-> Least(age[s] + 1, opts.staleAfter + 1)]
  /\ silence' = Least(silence + 1, SilentAfter)
  /\ checkDue' = watchArmed
  /\ upFor' = Least(upFor + 1, opts.staleAfter + 1)
  /\ UNCHANGED <<socket, staleArmed, watchArmed, verdict, world>>

\* A stream stops or resumes upstream (a delisting, an outage); one that
\* resumes right at a check counts as resuming after it.
ServedChanges(s) ==
  /\ ~checkDue
  /\ served' = IF s \in served THEN served \ {s} ELSE served \cup {s}
  /\ UNCHANGED <<socket, age, stale, watch, verdict, mute, upFor>>

\* The connection looks open and has stopped delivering.
GoesMute ==
  /\ conn = "open" /\ ~mute
  /\ mute' = TRUE
  /\ UNCHANGED <<socket, age, stale, watch, verdict, served, upFor>>

SocketStep == Connect \/ Opened \/ Errored \/ Dropped \/ Closed \/ UserClose
CheckStep  == CheckHealthy \/ CheckForces \/ CheckGivesUp

Next ==
  \/ SocketStep
  \/ \E s \in Streams : Message(s) \/ ServedChanges(s)
  \/ Ping
  \/ StaleFires
  \/ CheckStep
  \/ Elapse
  \/ GoesMute

Spec == Init /\ [][Next]_vars

\* Timers fire and their callbacks run; a served stream speaks; a socket that
\* is closing closes; time passes.  Nothing is assumed of the handshake.
FairSpec ==
  /\ Spec
  /\ WF_vars(Closed)
  /\ WF_vars(StaleFires)
  /\ WF_vars(CheckStep)
  /\ \A s \in Streams : WF_vars(Message(s))
  /\ WF_vars(Elapse)
-----------------------------------------------------------------------------
(* Properties. *)

\* No timer outlives what it is for.  A watchdog that is armed watches an open
\* connection or one whose 'close' is still to come, so it never ends the next
\* connection (clearStaleWatch, clearPerStreamWatch on every path); and nothing
\* that was pending reconnects a client after close().
NoOrphanTimer ==
  /\ staleArmed \/ watchArmed \/ checkDue => conn \in {"open", "closing"}
  /\ closedByUser => conn \in {"closing", "stopped"}

\* A step that ends a socket for a quiet stream: a whole window passed on it.
AfterFullWindow == reconnects' > reconnects => upFor > opts.staleAfter

\* A socket that has just opened is never judged on silence it has not had
\* time to break: the per-stream check only ends one that a whole window passed on.
ForcedAfterFullWindow == [][AfterFullWindow]_vars

\* Silence that nothing was done about: a connection that stopped delivering is
\* open, and a kline stream the exchange stopped serving is silent behind its busy
\* neighbours, on a socket that is up and with no outage declared.
DeadOpen  == mute /\ conn = "open"
Unheard(s) == opts.perStream /\ s \notin served /\ conn = "open" /\ ~gaveUp

\* It does not stay so.
SilenceIsActedOn == []<>~DeadOpen /\ \A s \in Streams : []<>~Unheard(s)
=============================================================================
