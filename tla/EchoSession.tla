---------------------------- MODULE EchoSession ----------------------------
(***************************************************************************)
(* Lab 12: echo_client.c and echo_server.c over one connection.  The       *)
(* client sends what fgets() read, takes one recv() for the echo of it and *)
(* goes on while that was longer than a byte; the server echoes one recv() *)
(* after the other while it was longer than a byte.  A stream keeps the    *)
(* order of bytes and not the bounds of messages: recv() returns any part  *)
(* of what is under way that fits the buffer.                              *)
(*                                                                         *)
(* A byte is its number in the input.  gethostbyname()'s address is not    *)
(* used, memcpy() having its arguments the other way round: the client     *)
(* always connects to the machine it runs on, which is where the server is.*)
(***************************************************************************)
EXTENDS Integers, Sequences, SequencesExt

CONSTANTS
  Inputs,       \* what may be typed: the lengths of the lines, newline included
  BufferSize    \* 256

ASSUME SizesOfLines ==
  /\ BufferSize \in Nat /\ BufferSize > 2
  /\ \A lines \in Inputs : lines \in Seq(Nat \ {0})

VARIABLES
  client,       \* "connect", "prompt", "send", "recv", "closed" or "error"
  server,       \* "listen", "accept", "recv", "send", "closed", "error" or
                \* "aborted" (in accept())
  typed, eof,   \* the lines not yet read, and whether fgets() met their end
  buffer, echo, \* the client's buffer before send(), and the server's
  toServer, toClient,  \* bytes under way
  connected, reset,    \* the kernel's view of the connection
  sent, printed,       \* history: bytes the client has sent and printed
  split         \* history: a recv() returned less than was sent to it

wire == <<toServer, toClient>>
vars == <<client, server, typed, eof, buffer, echo, wire, connected, reset,
          sent, printed, split>>

Ended == {"closed", "error", "aborted"}

TypeOK ==
  /\ client \in {"connect", "prompt", "send", "recv"} \union Ended
  /\ server \in {"listen", "accept", "recv", "send"} \union Ended
  /\ typed \in Seq(Nat \ {0})
  /\ \A s \in {buffer, echo, toServer, toClient, printed} : s \in Seq(Nat)
  /\ Len(buffer) < BufferSize /\ Len(echo) < BufferSize
  /\ sent \in Nat
  /\ \A flag \in {eof, connected, reset, split} : flag \in BOOLEAN

-----------------------------------------------------------------------------
Init ==
  /\ client = "connect" /\ server = "listen"
  /\ typed \in Inputs /\ eof = FALSE
  /\ buffer = <<>> /\ echo = <<>>
  /\ toServer = <<>> /\ toClient = <<>>
  /\ connected = FALSE /\ reset = FALSE
  /\ sent = 0 /\ printed = <<>> /\ split = FALSE

\* socket(), bind() and listen(), of which each may fail
Listen ==
  /\ server = "listen"
  /\ server' \in {"accept", "error"}
  /\ UNCHANGED <<client, typed, eof, buffer, echo, wire, connected, reset,
                 sent, printed, split>>

\* connect() needs a listening server, not one that is in accept()
Connect ==
  /\ client = "connect"
  /\ connected' = (server = "accept")
  /\ client' = IF connected' THEN "prompt" ELSE "error"
  /\ UNCHANGED <<server, typed, eof, buffer, echo, wire, reset, sent, printed,
                 split>>

\* accept() may fail, with or without a connection; one that nobody accepted is
\* reset, not closed, when the server ends
Accept ==
  /\ server = "accept"
  /\ \/ connected /\ server' = "recv" /\ UNCHANGED reset
     \/ server' = "aborted" /\ reset' = connected
  /\ UNCHANGED <<client, typed, eof, buffer, echo, wire, connected, sent,
                 printed, split>>

\* what recv() may return of the bytes under way
Pieces(stream) ==
  {SubSeq(stream, 1, k) : k \in 1 .. (IF Len(stream) < BufferSize - 1
                                      THEN Len(stream) ELSE BufferSize - 1)}
Rest(stream, piece) == SubSeq(stream, Len(piece) + 1, Len(stream))

-----------------------------------------------------------------------------
\* fgets(buffer, 255): a line, or as much of it as fits; at the end of the
\* input the cleared buffer stays empty
Prompt ==
  /\ client = "prompt"
  /\ IF typed = <<>>
     THEN /\ eof' = TRUE
          /\ buffer' = <<>>
          /\ UNCHANGED typed
     ELSE LET size == IF Head(typed) < BufferSize - 2 THEN Head(typed)
                      ELSE BufferSize - 2
          IN  /\ buffer' = [k \in 1 .. size |-> sent + k]
              /\ typed' = IF size = Head(typed) THEN Tail(typed)
                          ELSE <<Head(typed) - size>> \o Tail(typed)
              /\ UNCHANGED eof
  /\ client' = "send"
  /\ UNCHANGED <<server, echo, wire, connected, reset, sent, printed, split>>

\* send() and the memset() after it.  A server that is gone answers with a
\* reset; once that has come, send() fails or the signal it raises ends the
\* client.
ClientSend ==
  /\ client = "send"
  /\ \/ /\ client' = "recv"
        /\ toServer' = IF server \in Ended THEN toServer ELSE toServer \o buffer
        /\ reset' = (reset \/ (server \in Ended /\ buffer # <<>>))
        /\ sent' = sent + Len(buffer)
        /\ buffer' = <<>>
     \/ /\ reset /\ buffer # <<>>
        /\ client' = "error"
        /\ UNCHANGED <<buffer, toServer, reset, sent>>
  /\ UNCHANGED <<server, typed, eof, echo, toClient, connected, printed, split>>

\* the client's while condition, on what recv() left in the buffer, and close()
ClientRound(piece) ==
  /\ printed' = printed \o piece
  /\ client' = IF Len(piece) > 1 THEN "prompt" ELSE "closed"
  /\ reset' = (reset \/ (Len(piece) <= 1 /\ toClient' # <<>>))

\* recv() of data, of the end of the stream (0 bytes), or of a reset
ClientRecv ==
  /\ client = "recv"
  /\ \/ \E piece \in Pieces(toClient) :
          /\ toClient' = Rest(toClient, piece)
          /\ split' = (split \/ toClient' # <<>>)
          /\ ClientRound(piece)
     \/ /\ toClient = <<>> /\ server \in Ended \ {"aborted"}
        /\ UNCHANGED <<toClient, split>>
        /\ ClientRound(<<>>)
     \/ /\ reset
        /\ client' = "error"
        /\ UNCHANGED <<toClient, split, reset, printed>>
  /\ UNCHANGED <<server, typed, eof, buffer, echo, toServer, connected, sent>>

-----------------------------------------------------------------------------
\* Faulty variant: the buffer is not cleared, so the end of a longer message
\* stays behind a shorter one.
ServerRecvUncleared ==
  /\ server = "recv"
  /\ \/ \E piece \in Pieces(toServer) :
          /\ echo' = piece \o Rest(echo, piece)
          /\ toServer' = Rest(toServer, piece)
          /\ split' = (split \/ toServer' # <<>>)
          /\ server' = "send"
     \/ /\ toServer = <<>> /\ client \in Ended
        /\ echo' = <<>>
        /\ server' = "send"
        /\ UNCHANGED <<toServer, split>>
     \/ /\ reset
        /\ server' = "error"
        /\ UNCHANGED <<echo, toServer, split>>
  /\ UNCHANGED <<client, typed, eof, buffer, toClient, connected, reset, sent,
                 printed>>

\* memset() and recv()
ServerRecv ==
  /\ server = "recv"
  /\ \/ \E piece \in Pieces(toServer) :
          /\ echo' = piece
          /\ toServer' = Rest(toServer, piece)
          /\ split' = (split \/ toServer' # <<>>)
          /\ server' = "send"
     \/ /\ toServer = <<>> /\ client \in Ended
        /\ echo' = <<>>
        /\ server' = "send"
        /\ UNCHANGED <<toServer, split>>
     \/ /\ reset
        /\ server' = "error"
        /\ UNCHANGED <<echo, toServer, split>>
  /\ UNCHANGED <<client, typed, eof, buffer, toClient, connected, reset, sent,
                 printed>>

\* Faulty variant: a byte is not worth an echo, and ends nothing.
ServerSendLong ==
  /\ server = "send"
  /\ server' = "recv"
  /\ toClient' = IF client \in Ended \/ Len(echo) <= 1 THEN toClient
                 ELSE toClient \o echo
  /\ reset' = (reset \/ (client \in Ended /\ echo # <<>>))
  /\ UNCHANGED <<client, typed, eof, buffer, echo, toServer, connected, sent,
                 printed, split>>

\* Faulty variant: the newline is cut off.
ServerSendLine ==
  /\ server = "send"
  /\ server' = IF Len(echo) > 1 THEN "recv" ELSE "closed"
  /\ toClient' = IF client \in Ended THEN toClient
                 ELSE toClient \o SubSeq(echo, 1, Len(echo) - 1)
  /\ reset' = (reset \/ (client \in Ended /\ echo # <<>>)
                     \/ (server' = "closed" /\ toServer # <<>>))
  /\ UNCHANGED <<client, typed, eof, buffer, echo, toServer, connected, sent,
                 printed, split>>

\* send(), the while condition, and close(); closing with bytes that were not
\* read resets the connection
ServerSend ==
  /\ server = "send"
  /\ \/ /\ server' = IF Len(echo) > 1 THEN "recv" ELSE "closed"
        /\ toClient' = IF client \in Ended THEN toClient ELSE toClient \o echo
        /\ reset' = (reset \/ (client \in Ended /\ echo # <<>>)
                           \/ (server' = "closed" /\ toServer # <<>>))
     \/ /\ reset /\ echo # <<>>
        /\ server' = "error"
        /\ UNCHANGED <<toClient, reset>>
  /\ UNCHANGED <<client, typed, eof, buffer, echo, toServer, connected, sent,
                 printed, split>>

Client == Connect \/ ClientSend \/ ClientRecv
Server == Listen \/ Accept \/ ServerRecv \/ ServerSend

Next == Client \/ Prompt \/ Server

Spec == Init /\ [][Next]_vars

\* Both programs run, and what is under way arrives.  The user owes nothing.
FairSpec == Spec /\ WF_vars(Client) /\ WF_vars(Server)

-----------------------------------------------------------------------------
\* The client prints a beginning of what it has sent: nothing is lost, added or
\* exchanged on the way through both buffers, however the stream is cut.
EchoInOrder ==
  /\ TypeOK
  /\ Len(printed) <= sent
  /\ \A k \in DOMAIN printed : printed[k] = k

\* The bytes sent that may still be printed: what is under way to the client, what
\* the server is about to send and what is under way to it, as long as they run.
unprinted ==
  IF client \in Ended THEN <<>>
  ELSE IF server \in Ended THEN toClient
  ELSE toClient \o (IF server = "send" THEN echo ELSE <<>>) \o toServer

Queue == INSTANCE EchoQueue WITH
           stopped <- client \in Ended \/ server \in Ended

\* The two buffers and the two directions of the connection are one queue, however
\* its bytes are cut into messages and whoever stops first.
ImplementsEchoQueue == Queue!Spec

\* As long as no message has been split each prompt follows the whole echo of
\* what was typed before it.  (After a split the client stays behind.)
UnsplitRoundTrip ==
  /\ TypeOK
  /\ client \in {"prompt", "closed"} /\ ~split => Len(printed) = sent

\* The client and the server wait for each other for good only at the end of the
\* client's input, when there is nothing to send and recv() is called anyway.
BothWaitOnlyAtEnd ==
  client = "recv" /\ server = "recv" /\ toServer = <<>> /\ toClient = <<>>
    => eof

\* When one end of a connection stops so does the other: the server at once, the
\* client when it has the next line.
StopTogether ==
  /\ connected /\ client \in Ended ~> server \in Ended
  /\ connected /\ server \in Ended ~> client \in Ended \union {"prompt"}
=============================================================================
