------------------------------- MODULE Intake -------------------------------
(***************************************************************************)
(* What comes into the daemon: kernel messages (module KernelLog), and the *)
(* datagrams of clients, which process_datagram() (core/journald-server.c) *)
(* takes off the native and the syslog socket and hands to the parsers of  *)
(* module Protocols.  Clients and the kernel go on while the daemon works. *)
(*                                                                         *)
(* What becomes of an entry then (rate limit, file, rotation) is in the    *)
(* modules RateLimit and Journald.                                         *)
(***************************************************************************)
EXTENDS KernelLog, Protocols

CONSTANTS Messages,        \* [via |-> "native", level, iov] or
                           \* [via |-> "syslog", priority, word, pid, text]
          QueueSize,       \* datagrams a socket holds
          MaxLevelSyslog   \* MaxLevelSyslog=

ASSUME IntakeAssumption == QueueSize \in Nat \ {0} /\ MaxLevelSyslog \in 0 .. 7

VARIABLES queue,      \* the datagrams each socket holds
          pending,    \* sources epoll_wait() reported, whose callbacks are still to be called
          busy,       \* the socket process_datagram() is at, or "none"
          taken,      \* history: the messages whose datagrams were received
          entries,    \* what was stored of them
          forwarded,  \* what was sent on to /run/journal/syslog
          sends       \* datagrams sent so far

cvars == <<queue, pending, busy, taken, entries, forwarded, sends>>
vars == <<kvars, cvars>>

Sockets == {"native", "syslog"}

Init ==
    /\ KernelInit
    /\ queue = [s \in Sockets |-> <<>>]
    /\ pending = {} /\ busy = "none"
    /\ taken = <<>> /\ entries = <<>> /\ forwarded = <<>> /\ sends = 0

\* A message with its datagram as the daemon's parser reads it, which depends on the datagram only
Datagram(m) ==
    [message |-> m,
     read |-> IF m.via = "native" THEN NativeMessage(Sendv(m.iov))
              ELSE SyslogMessage(SyslogLine(m))]

\* A client sends: sd_journal_sendv(), or syslog(3).  A full socket keeps it waiting; without a
\* daemon the datagram goes nowhere, and nothing changes.
Send(m) ==
    /\ pc # "down"
    /\ sends < scope.sends
    /\ Len(queue[m.via]) < QueueSize
    /\ m.via = "native" => \A i \in DOMAIN m.iov : Sendable(m.iov[i])
    /\ queue' = [queue EXCEPT ![m.via] = Append(@, Datagram(m))]
    /\ sends' = sends + 1
    /\ UNCHANGED <<kvars, pending, busy, taken, entries, forwarded>>

\* epollfd_run(): epoll_wait() reports all that is ready, and the callbacks follow one by one.
Ready == {s \in Sockets : queue[s] # <<>>} \union (IF watched /\ Readable THEN {"kmsg"} ELSE {})
EpollWait ==
    /\ pc = "loop" /\ busy = "none" /\ pending = {}
    /\ Ready # {}
    /\ pending' = Ready
    /\ UNCHANGED <<kvars, queue, busy, taken, entries, forwarded, sends>>

ProcessDatagram ==
    /\ busy = "none"
    /\ \E s \in pending \ {"kmsg"} : busy' = s /\ pending' = pending \ {s}
    /\ UNCHANGED <<kvars, queue, taken, entries, forwarded, sends>>

\* server_dispatch_message(), up to the rate limiter
DispatchMessage(new) == SelectSeq(new, LAMBDA e : Level(e.priority) <= MaxLevelStore)
ForwardSyslog(new) == SelectSeq(new, LAMBDA e : Level(e.priority) <= MaxLevelSyslog)

\* One turn of the loop: recvmsg() gets a datagram, or EAGAIN.  What is forwarded may find the
\* other socket full, and is dropped.
Receive ==
    /\ busy # "none"
    /\ queue[busy] # <<>>
    /\ LET d == Head(queue[busy])
       IN  /\ taken' = Append(taken, d.message)
           /\ entries' = entries \o DispatchMessage(d.read.entries)
           /\ \/ forwarded' = forwarded \o ForwardSyslog(d.read.forward)
              \/ UNCHANGED forwarded
    /\ queue' = [queue EXCEPT ![busy] = Tail(@)]
    /\ UNCHANGED <<kvars, pending, busy, sends>>

Again ==
    /\ busy # "none"
    /\ queue[busy] = <<>>
    /\ busy' = "none"
    /\ UNCHANGED <<kvars, queue, pending, taken, entries, forwarded, sends>>

\* Closing a socket discards what it holds.
Closed == queue' = [s \in Sockets |-> <<>>] /\ pending' = {} /\ busy' = "none"

KernelPrints == Printk /\ UNCHANGED cvars
DaemonStart == Start /\ UNCHANGED cvars
Flush == FlushDevKmsg /\ UNCHANGED cvars
DispatchKernel ==
    /\ busy = "none" /\ "kmsg" \in pending
    /\ DispatchDevKmsg
    /\ pending' = pending \ {"kmsg"}
    /\ UNCHANGED <<queue, busy, taken, entries, forwarded, sends>>
DaemonStop ==
    busy = "none" /\ pending = {} /\ Stop /\ Closed /\ UNCHANGED <<taken, entries, forwarded, sends>>
DaemonKilled == Kill /\ Closed /\ UNCHANGED <<taken, entries, forwarded, sends>>

DaemonStep ==
    DaemonStart \/ Flush \/ EpollWait \/ DispatchKernel \/ ProcessDatagram \/ Receive \/ Again

Next ==
    \/ DaemonStep \/ KernelPrints \/ DaemonStop \/ DaemonKilled
    \/ \E m \in Messages : Send(m)

\* The daemon is started again, and goes on while it has something to do.
Fairness == WF_vars(DaemonStep)

Spec == Init /\ [][Next]_vars
FairSpec == Spec /\ Fairness

-----------------------------------------------------------------------------
(* Properties                                                              *)

\* What a client meant: its own fields that it may set, and its identifier.
NativeMeant(m) ==
    [fields |-> SelectSeq(Complete(m.iov), LAMBDA f : f[1] \in Names),
     priority |-> m.level, transport |-> "journal"]
SyslogMeant(m) ==
    [fields |-> [identifier |-> m.word, pid |-> m.pid, rest |-> m.text],
     priority |-> m.priority, transport |-> "syslog"]
Meant(m) == IF m.via = "native" THEN NativeMeant(m) ELSE SyslogMeant(m)

\* What is stored is exactly what clients sent, field by field, whatever bytes the values hold:
\* one entry for every datagram received and not filtered, in the order received.
StoredAsSent == entries = DispatchMessage([i \in DOMAIN taken |-> Meant(taken[i])])

\* Only what was received is forwarded, in that order, with the text and the level sent; only a
\* full socket, a text of several lines or its level keeps a message from it.
Texts(m) ==
    IF m.via = "syslog" THEN {SyslogLine(m)}
    ELSE {From(m.iov[i], 3) : i \in {j \in DOMAIN m.iov : m.iov[j][1] = "MESSAGE"}}
ForwardedAsSent ==
    \E at \in [DOMAIN forwarded -> DOMAIN taken] :
       /\ \A i, j \in DOMAIN at : i < j => at[i] < at[j]
       /\ \A i \in DOMAIN at :
             /\ forwarded[i].message \in Texts(taken[at[i]])
             /\ Level(forwarded[i].priority) = Level(Meant(taken[at[i]]).priority)
             /\ Level(forwarded[i].priority) <= MaxLevelSyslog

\* What clients sent is stored and forwarded as they sent it.
MessagesAsSent == StoredAsSent /\ ForwardedAsSent

\* No source starves: once clients and the kernel have no more to say, and the daemon is left
\* running, everything in the sockets and in the kernel's log has been read.
Served == <>[](pc = "loop" /\ pos = Printed /\ \A s \in Sockets : queue[s] = <<>>)
=============================================================================
