------------------------------- MODULE Mailbox -------------------------------
(* What a packet queue and its thread's event promise together: a thread     *)
(* sleeps on a manual-reset event (WaitEvent.cpp) and empties a queue        *)
(* (PacketRecvList, PacketSendList) into which other threads link nodes,     *)
(* each of them setting the event after it has linked.  The event may also   *)
(* be set without a node (ServerExit).  The promise: nodes are taken in the  *)
(* order they were linked, and none is left behind by a sleeping consumer.   *)
EXTENDS Naturals, Sequences

CONSTANTS Producers, Messages

VARIABLES
    queue,
    event,
    consumer,   \* "sleep": about to wait or waiting; "wake": WaitForSingleObject
                \* has returned, ResetEvent is next; "work"; "stop"
    owing       \* producers that have linked a node and not yet set the event

mailboxVars == <<queue, event, consumer, owing>>

MailboxTypeOK ==
    /\ queue \in Seq(Messages)
    /\ event \in BOOLEAN
    /\ consumer \in {"sleep", "wake", "work", "stop"}
    /\ owing \subseteq Producers

MailboxInit ==
    /\ queue = <<>>
    /\ event = FALSE
    /\ consumer = "sleep"
    /\ owing = {}

\* Mutants of Link: a node nobody will signal; a node with the wrong content.
LinkSilently(p) ==
    /\ p \notin owing
    /\ \E m \in Messages : queue' = Append(queue, m)
    /\ UNCHANGED <<event, consumer, owing>>
LinkSelf(p) ==
    /\ p \notin owing
    /\ queue' = Append(queue, p)
    /\ owing' = owing \union {p}
    /\ UNCHANGED <<event, consumer>>

\* LockLink, then Awake.
Link(p) ==
    /\ p \notin owing
    /\ \E m \in Messages : queue' = Append(queue, m)
    /\ owing' = owing \union {p}
    /\ UNCHANGED <<event, consumer>>

Awake(p) ==
    /\ p \in owing
    /\ event' = TRUE
    /\ owing' = owing \ {p}
    /\ UNCHANGED <<queue, consumer>>

\* A wake-up that is not about a node.
Signal ==
    /\ event' = TRUE
    /\ UNCHANGED <<queue, consumer, owing>>

\* WaitEvent::Wait: WaitForSingleObject, then ResetEvent.
WaitReturns ==
    /\ consumer = "sleep" /\ event
    /\ consumer' = "wake"
    /\ UNCHANGED <<queue, event, owing>>

Reset ==
    /\ consumer = "wake"
    /\ event' = FALSE
    /\ consumer' = "work"
    /\ UNCHANGED <<queue, owing>>

\* Mutant of Take: the head is handled and stays linked.
TakeKeeps ==
    /\ consumer = "work" /\ queue # <<>>
    /\ UNCHANGED <<queue, event, consumer, owing>>

\* The head is handled and unlinked; with an empty queue the thread goes back.
Take ==
    /\ consumer = "work" /\ queue # <<>>
    /\ queue' = Tail(queue)
    /\ UNCHANGED <<event, consumer, owing>>

Empty ==
    /\ consumer = "work" /\ queue = <<>>
    /\ consumer' = "sleep"
    /\ UNCHANGED <<queue, event, owing>>

\* The head is the message that ends the server: it is unlinked and the thread
\* leaves its loop, whatever else is queued.
Quit ==
    /\ consumer = "work" /\ queue # <<>>
    /\ queue' = Tail(queue)
    /\ consumer' = "stop"
    /\ UNCHANGED <<event, owing>>

\* RunFlag is down at the top of the thread's loop.
Stop ==
    /\ consumer = "sleep"
    /\ consumer' = "stop"
    /\ UNCHANGED <<queue, event, owing>>

Consume == WaitReturns \/ Reset \/ Take \/ Empty

MailboxNext ==
    \/ \E p \in Producers : Link(p) \/ Awake(p)
    \/ Signal \/ Consume \/ Quit \/ Stop

MailboxSpec == MailboxInit /\ [][MailboxNext]_mailboxVars

FairMailboxSpec ==
    /\ MailboxSpec
    /\ \A p \in Producers : WF_mailboxVars(Awake(p))
    /\ WF_mailboxVars(Consume)

\* A consumer on its way to sleep or asleep beside a node will be woken: its
\* event is set, or the producer of a node has still to set it.
NothingLeftBehind ==
    consumer = "sleep" /\ queue # <<>> => event \/ owing # {}

\* Whatever is linked is taken: nodes are taken again and again for as long as
\* the queue holds any and the consumer's thread does not stop.
EverythingTaken ==
    []<>(queue = <<>> \/ consumer = "stop") \/ []<><<Take>>_mailboxVars
=============================================================================
