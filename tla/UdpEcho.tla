------------------------------ MODULE UdpEcho ------------------------------
(***************************************************************************)
(* The datagram programs of Lab12/examples: UDPEchoClient-Timeout.c, which *)
(* sends its word again when SIGALRM interrupts recvfrom(), and a server,  *)
(* UDPEchoServer.c (recvfrom() blocks) or UDPEchoServer-SIGIO.c (a handler *)
(* drains the socket when SIGIO says that something arrived).  Datagrams   *)
(* are lost, duplicated and reordered.  The word of a client is the client.*)
(***************************************************************************)
EXTENDS Integers, Sequences

CONSTANTS
  Clients,
  MaxTries,     \* MAXTRIES, 5
  QueueMax      \* how many datagrams the kernel keeps for the server's socket

ASSUME EchoBounds == MaxTries \in Nat \ {0} /\ QueueMax \in Nat \ {0}

VARIABLES
  network,      \* the datagrams sent so far, [to, client, word]
  program,      \* the server: "blocking" or "SIGIO"
  serverAt,     \* "start", "bound" (SIGIO not yet asked for), "idle",
                \* "recv" and "send" (of the handler, or of the blocking loop)
  queue, sigio, \* the server's socket, and whether SIGIO is pending
  echoBuffer,   \* the datagram the server is answering, if it is
  clientAt,     \* of each: "start", "call" (on the way into recvfrom()),
                \* "blocked", "interrupted", "received", "done" or "gaveUp"
  tries, timer, \* of each: alarms, and whether one is set
  inbox,        \* of each: the words in its socket
  got,          \* of each: the word it received, if it did
  sends, missed, arrived  \* history: datagrams a client has sent; an alarm came
                \* before recvfrom(); a datagram came after SIGIO was asked for

serverVars == <<program, serverAt, queue, sigio, echoBuffer, arrived>>
clientVars == <<clientAt, tries, timer, inbox, got, sends, missed>>
udpVars == <<network, serverVars, clientVars>>

Finished == {"done", "gaveUp"}
Packets == [client : Clients, word : Clients]
Datagrams == [to : {"server", "client"}, client : Clients, word : Clients]

UdpTypeOK ==
  /\ network \subseteq Datagrams
  /\ program \in {"blocking", "SIGIO"}
  /\ serverAt \in {"start", "bound", "idle", "recv", "send"}
  /\ queue \in Seq(Packets) /\ Len(queue) <= QueueMax
  /\ echoBuffer \subseteq Packets
  /\ sigio \in BOOLEAN /\ arrived \in BOOLEAN
  /\ clientAt \in [Clients -> {"start", "call", "blocked", "interrupted",
                             "received"} \union Finished]
  /\ tries \in [Clients -> Nat] /\ sends \in [Clients -> Nat]
  /\ timer \in [Clients -> BOOLEAN] /\ missed \in [Clients -> BOOLEAN]
  /\ inbox \in [Clients -> SUBSET Clients] /\ got \in [Clients -> SUBSET Clients]

-----------------------------------------------------------------------------
UdpInit ==
  /\ network = {}
  /\ program \in {"blocking", "SIGIO"} /\ serverAt = "start"
  /\ queue = <<>> /\ sigio = FALSE /\ arrived = FALSE
  /\ echoBuffer = {}
  /\ clientAt = [c \in Clients |-> "start"]
  /\ tries = [c \in Clients |-> 0] /\ sends = [c \in Clients |-> 0]
  /\ timer = [c \in Clients |-> FALSE] /\ missed = [c \in Clients |-> FALSE]
  /\ inbox = [c \in Clients |-> {}] /\ got = [c \in Clients |-> {}]

-----------------------------------------------------------------------------
(* The network.  A datagram is never taken out of the set: it may be       *)
(* delivered late, after younger ones, twice, or not at all (it is lost).  *)

\* The kernel puts a datagram into the server's socket, if there is room and the
\* socket is bound, and raises SIGIO if that was asked for.
ArriveAtServer ==
  /\ \E d \in network :
       /\ d.to = "server"
       /\ queue' = Append(queue, [client |-> d.client, word |-> d.word])
  /\ serverAt # "start" /\ Len(queue) < QueueMax
  /\ sigio' = (program = "SIGIO" /\ serverAt # "bound")
  /\ arrived' = sigio'
  /\ UNCHANGED <<network, program, serverAt, echoBuffer, clientVars>>

ArriveAtClient ==
  /\ \E d \in network :
       /\ d.to = "client"
       /\ clientAt[d.client] \notin Finished
       /\ inbox' = [inbox EXCEPT ![d.client] = @ \union {d.word}]
  /\ UNCHANGED <<network, clientAt, tries, timer, got, sends, missed, serverVars>>

Network == ArriveAtServer \/ ArriveAtClient

-----------------------------------------------------------------------------
(* The servers.                                                            *)

\* bind(), and then sigaction(), F_SETOWN and FASYNC, or the blocking loop
Bind ==
  /\ serverAt = "start"
  /\ serverAt' = IF program = "SIGIO" THEN "bound" ELSE "recv"
  /\ UNCHANGED <<network, program, queue, sigio, echoBuffer, arrived, clientVars>>

AskForSignals ==
  /\ serverAt = "bound"
  /\ serverAt' = "idle"
  /\ UNCHANGED <<network, program, queue, sigio, echoBuffer, arrived, clientVars>>

\* SIGIOHandler() begins; other signals are held back until it returns
DeliverSigio ==
  /\ serverAt = "idle" /\ sigio
  /\ serverAt' = "recv"
  /\ sigio' = FALSE
  /\ UNCHANGED <<network, program, queue, echoBuffer, arrived, clientVars>>

\* Faulty variant: a datagram behind the first overwrites the word.
RecvfromOverwritten ==
  /\ serverAt = "recv" /\ queue # <<>>
  /\ echoBuffer' = {[client |-> Head(queue).client,
                     word |-> queue[Len(queue)].word]}
  /\ queue' = Tail(queue)
  /\ serverAt' = "send"
  /\ UNCHANGED <<network, program, sigio, arrived, clientVars>>

Recvfrom ==
  /\ serverAt = "recv" /\ queue # <<>>
  /\ echoBuffer' = {Head(queue)}
  /\ queue' = Tail(queue)
  /\ serverAt' = "send"
  /\ UNCHANGED <<network, program, sigio, arrived, clientVars>>

\* EWOULDBLOCK: the handler returns
NothingLeft ==
  /\ serverAt = "recv" /\ program = "SIGIO" /\ queue = <<>>
  /\ serverAt' = "idle"
  /\ UNCHANGED <<network, program, queue, sigio, echoBuffer, arrived, clientVars>>

Reply(p) == [to |-> "client", client |-> p.client, word |-> p.word]

\* Faulty variant: the handler answers one datagram.
SendtoOnce ==
  /\ serverAt = "send"
  /\ network' = network \union {Reply(p) : p \in echoBuffer}
  /\ echoBuffer' = {}
  /\ serverAt' = IF program = "SIGIO" THEN "idle" ELSE "recv"
  /\ UNCHANGED <<program, queue, sigio, arrived, clientVars>>

Sendto ==
  /\ serverAt = "send"
  /\ network' = network \union {Reply(p) : p \in echoBuffer}
  /\ echoBuffer' = {}
  /\ serverAt' = "recv"
  /\ UNCHANGED <<program, queue, sigio, arrived, clientVars>>

UdpServer == Bind \/ AskForSignals \/ DeliverSigio \/ Recvfrom \/ NothingLeft \/ Sendto

-----------------------------------------------------------------------------
(* A client.                                                               *)

Request(c) == [to |-> "server", client |-> c, word |-> c]
Move(c, from, to) == clientAt[c] = from /\ clientAt' = [clientAt EXCEPT ![c] = to]

\* sendto() and alarm(TIMEOUT_SECS)
Transmit(c) ==
  /\ network' = network \union {Request(c)}
  /\ sends' = [sends EXCEPT ![c] = @ + 1]
  /\ timer' = [timer EXCEPT ![c] = TRUE]
  /\ UNCHANGED <<tries, inbox, got, missed, serverVars>>

First(c) == Move(c, "start", "call") /\ Transmit(c)

\* recvfrom() finds nothing and waits
Block(c) ==
  /\ Move(c, "call", "blocked")
  /\ inbox[c] = {}
  /\ UNCHANGED <<network, tries, timer, inbox, got, sends, missed, serverVars>>

Receive(c) ==
  /\ clientAt[c] \in {"call", "blocked"}
  /\ \E w \in inbox[c] : got' = [got EXCEPT ![c] = {w}]
  /\ clientAt' = [clientAt EXCEPT ![c] = "received"]
  /\ UNCHANGED <<network, tries, timer, inbox, sends, missed, serverVars>>

\* CatchAlarm().  recvfrom() fails with EINTR if it waits; an alarm that comes
\* before it waits is counted, and interrupts nothing.
Alarm(c) ==
  /\ timer[c] /\ clientAt[c] \notin Finished
  /\ timer' = [timer EXCEPT ![c] = FALSE]
  /\ tries' = [tries EXCEPT ![c] = @ + 1]
  /\ missed' = [missed EXCEPT ![c] = @ \/ clientAt[c] = "call"]
  /\ clientAt' = [clientAt EXCEPT ![c] = IF @ = "blocked" THEN "interrupted" ELSE @]
  /\ UNCHANGED <<network, inbox, got, sends, serverVars>>

\* Faulty variants: one try too many; the alarm is not set again.
RetryOneMore(c) ==
  /\ Move(c, "interrupted", "call")
  /\ tries[c] <= MaxTries
  /\ Transmit(c)

RetryWithoutAlarm(c) ==
  /\ Move(c, "interrupted", "call")
  /\ tries[c] < MaxTries
  /\ network' = network \union {Request(c)}
  /\ sends' = [sends EXCEPT ![c] = @ + 1]
  /\ UNCHANGED <<tries, timer, inbox, got, missed, serverVars>>

Retry(c) ==
  /\ Move(c, "interrupted", "call")
  /\ tries[c] < MaxTries
  /\ Transmit(c)

\* DieWithError("No Response"); the socket goes, with what it holds
GiveUp(c) ==
  /\ Move(c, "interrupted", "gaveUp")
  /\ tries[c] >= MaxTries
  /\ inbox' = [inbox EXCEPT ![c] = {}]
  /\ UNCHANGED <<network, tries, timer, got, sends, missed, serverVars>>

\* alarm(0), the word is printed, and the socket is closed
Cancel(c) ==
  /\ Move(c, "received", "done")
  /\ timer' = [timer EXCEPT ![c] = FALSE]
  /\ inbox' = [inbox EXCEPT ![c] = {}]
  /\ UNCHANGED <<network, tries, got, sends, missed, serverVars>>

UdpClient(c) ==
  First(c) \/ Block(c) \/ Receive(c) \/ Alarm(c) \/ Retry(c) \/ GiveUp(c) \/ Cancel(c)

UdpNext == Network \/ UdpServer \/ \E c \in Clients : UdpClient(c)

UdpSpec == UdpInit /\ [][UdpNext]_udpVars

\* A client runs, and its alarm goes off.  Nothing is owed by the network, which
\* may lose everything, nor by the server.
FairUdpSpec == UdpSpec /\ \A c \in Clients : WF_udpVars(UdpClient(c))

-----------------------------------------------------------------------------
\* SIGIO does not count: one signal may stand for many datagrams, and more may
\* come while the handler runs.  Still, when the server idles with no signal
\* pending, nothing that came after SIGIO was asked for is left in its socket.
NoDatagramStranded ==
  serverAt = "idle" /\ ~sigio /\ queue # <<>> => ~arrived

\* However requests are repeated, reordered and queued behind those of others, a
\* client prints the word it sent.
OwnWord == \A c \in Clients : got[c] \subseteq {c}

\* A client sends its word MAXTRIES times at most, and gives up only when it has
\* done so and an alarm has followed each.
GivesUpAfterMaxTries ==
  /\ UdpTypeOK
  /\ \A c \in Clients :
       /\ sends[c] <= MaxTries
       /\ clientAt[c] = "gaveUp" => sends[c] = MaxTries /\ tries[c] = MaxTries

\* A client ends, with an answer or without, unless an alarm came between
\* alarm() and recvfrom(): then nothing wakes it but a datagram.
ClientEnds ==
  \A c \in Clients : <>(clientAt[c] \in Finished \/ missed[c])
=============================================================================
