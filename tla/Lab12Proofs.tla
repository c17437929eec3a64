---------------------------- MODULE Lab12Proofs ----------------------------
(***************************************************************************)
(* Proofs about the programs of Lab 12, three systems with variables of    *)
(* their own: the forking servers' counter, for any finite number of       *)
(* clients; the echo session, for any input and any buffer, and the queue  *)
(* of bytes it implements; and the datagram client with its time-outs, for *)
(* any number of clients.                                                  *)
(***************************************************************************)
EXTENDS ForkServer, EchoSession, UdpEcho, FiniteSetTheorems, SequenceTheorems, TLAPS

-----------------------------------------------------------------------------
(* The forking servers.                                                    *)

\* The value loaded is the count as long as the handler has not run; the client
\* between accept() and fork() is the one clntSock names; a server that has ended
\* reaps nothing.
ForkInv ==
  /\ ForkTypeOK
  /\ main_at = "store" /\ ~torn => loaded = childProcCount
  /\ main_at = "fork" => child[clntSock] = "accepted"
  /\ ServerEnded => ~reaping
  /\ CountIsUnreaped
  /\ DiesOnlyAfterTear

\* There are finitely many children, so their number is a natural number.
LEMMA UnreapedFinite ==
  ASSUME ForkTypeOK
  PROVE  /\ IsFiniteSet(Unreaped)
         /\ Cardinality(Unreaped) \in Nat
<1>1. Unreaped \subseteq Connections
  BY DEF Unreaped, InStage
<1>2. IsFiniteSet(Unreaped)
  BY <1>1, ServerBounds, FS_Subset
<1> QED
  BY <1>2, FS_CardinalityType

\* No client has connected and no child exists.
LEMMA ForkInitInv == ForkInit => ForkInv
<1> SUFFICES ASSUME ForkInit PROVE ForkInv
  OBVIOUS
<1>1. ForkTypeOK
  BY DEF ForkInit, ForkTypeOK
<1>2. Unreaped = {}
  BY DEF ForkInit, Unreaped, InStage
<1>3. CountIsUnreaped
  BY <1>2, FS_EmptySet DEF ForkInit, CountIsUnreaped, Uncounted
<1> QED
  BY <1>1, <1>3 DEF ForkInit, ForkInv, ServerEnded, DiesOnlyAfterTear

\* Fork and Reap change the children the count is about; the other steps of the
\* system leave them alone.
LEMMA ForkKeepsInv ==
  ASSUME ForkInv, Fork
  PROVE  ForkInv'
<1>1. ForkTypeOK'
  BY DEF ForkInv, ForkTypeOK, Fork
<1>2. /\ Unreaped' = Unreaped \union {clntSock}
      /\ clntSock \notin Unreaped
  BY DEF ForkInv, ForkTypeOK, Fork, Running, Unreaped, InStage
<1>3. Cardinality(Unreaped') = Cardinality(Unreaped) + 1
  BY <1>2, UnreapedFinite, FS_AddElement DEF ForkInv
<1>4. CountIsUnreaped'
  BY <1>3 DEF ForkInv, ForkTypeOK, Fork, Running, CountIsUnreaped, Uncounted,
              ServerEnded
<1> QED
  BY <1>1, <1>4 DEF ForkInv, Fork, Running, ServerEnded, DiesOnlyAfterTear

\* One round of the loop in the handler takes one child off the count.
LEMMA ReapKeepsInv ==
  ASSUME ForkInv, Reap
  PROVE  ForkInv'
<1>1. PICK c \in InStage("zombie") : child' = [child EXCEPT ![c] = "reaped"]
  BY DEF Reap
<1>2. ForkTypeOK'
  <2>1. child' \in [Connections -> {"away", "waiting", "accepted", "serving",
                                "zombie", "reaped"}]
    BY <1>1 DEF ForkInv, ForkTypeOK
  <2>2. childProcCount' \in Nat
    BY DEF ForkInv, ForkTypeOK, Reap
  <2>3. torn' \in BOOLEAN
    BY DEF ForkInv, ForkTypeOK, Reap
  <2> QED
    BY <2>1, <2>2, <2>3, Zenon DEF ForkInv, ForkTypeOK, Reap
<1>3. /\ Unreaped' = Unreaped \ {c}
      /\ c \in Unreaped
  BY <1>1 DEF ForkInv, ForkTypeOK, Unreaped, InStage
<1>4. Cardinality(Unreaped') = Cardinality(Unreaped) - 1
  BY <1>3, UnreapedFinite, FS_RemoveElement DEF ForkInv
<1>5. CountIsUnreaped'
  BY <1>4, UnreapedFinite DEF ForkInv, ForkTypeOK, Reap, CountIsUnreaped,
                              Uncounted, ServerEnded
<1>6. main_at = "fork" => c # clntSock
  BY <1>1 DEF ForkInv, InStage
<1> QED
  BY <1>1, <1>2, <1>5, <1>6 DEF ForkInv, ForkTypeOK, Reap, ServerEnded,
                                DiesOnlyAfterTear, InStage

\* Every step of the server, its children and its handler keeps the invariant.
LEMMA ForkNextInv == ForkInv /\ [ForkNext]_forkVars => ForkInv'
<1> SUFFICES ASSUME ForkInv, [ForkNext]_forkVars PROVE ForkInv'
  OBVIOUS
<1>1. ASSUME NEW c \in Connections, ConnectClient(c) PROVE ForkInv'
  <2>1. Unreaped' = Unreaped
    BY <1>1 DEF ForkInv, ForkTypeOK, ConnectClient, Unreaped, InStage
  <2> QED
    BY <1>1, <2>1 DEF ForkInv, ForkTypeOK, ConnectClient, CountIsUnreaped,
                      Uncounted, ServerEnded,
                      DiesOnlyAfterTear
<1>2. CASE AcceptTCPConnection
  <2>1. PICK c \in InStage("waiting") :
          clntSock' = c /\ child' = [child EXCEPT ![c] = "accepted"]
    BY <1>2 DEF AcceptTCPConnection
  <2>2. Unreaped' = Unreaped
    BY <2>1 DEF ForkInv, ForkTypeOK, Unreaped, InStage
  <2> QED
    BY <1>2, <2>1, <2>2 DEF ForkInv, ForkTypeOK, AcceptTCPConnection, Running,
                            CountIsUnreaped,
                            Uncounted, ServerEnded, DiesOnlyAfterTear, InStage
<1>3. CASE Fork
  BY <1>3, ForkKeepsInv
<1>4. CASE AcceptFails \/ ForkFails
  BY <1>4 DEF ForkInv, ForkTypeOK, AcceptFails, ForkFails, Running, CountIsUnreaped,
              ServerEnded, DiesOnlyAfterTear
<1>5. CASE Load
  BY <1>5 DEF ForkInv, ForkTypeOK, Load, Running, CountIsUnreaped, Uncounted,
              Unreaped,
              InStage, ServerEnded, DiesOnlyAfterTear
<1>6. CASE Store
  BY <1>6 DEF ForkInv, ForkTypeOK, Store, Running, CountIsUnreaped, Uncounted,
              Unreaped,
              InStage, ServerEnded, DiesOnlyAfterTear
<1>7. ASSUME NEW c \in Connections, ChildExits(c) PROVE ForkInv'
  <2>1. Unreaped' = Unreaped
    BY <1>7 DEF ForkInv, ForkTypeOK, ChildExits, Unreaped, InStage
  <2> QED
    BY <1>7, <2>1 DEF ForkInv, ForkTypeOK, ChildExits, CountIsUnreaped, Uncounted,
                      ServerEnded,
                      DiesOnlyAfterTear
<1>8. CASE DeliverSigchld
  BY <1>8 DEF ForkInv, ForkTypeOK, DeliverSigchld, CountIsUnreaped, Uncounted,
              Unreaped, InStage,
              ServerEnded, DiesOnlyAfterTear
<1>9. CASE Reap
  BY <1>9, ReapKeepsInv
<1>10. CASE Return
  BY <1>10 DEF ForkInv, ForkTypeOK, Return, CountIsUnreaped, Uncounted, Unreaped,
               InStage,
               ServerEnded, DiesOnlyAfterTear
<1>11. CASE WaitFails
  <2>1. Cardinality(Unreaped) = 0
    BY <1>11, FS_EmptySet DEF WaitFails
  <2>2. torn
    BY <1>11, <2>1 DEF ForkInv, ForkTypeOK, WaitFails, CountIsUnreaped, Uncounted,
                       ServerEnded
  <2> QED
    BY <1>11, <2>2 DEF ForkInv, ForkTypeOK, WaitFails, CountIsUnreaped, ServerEnded,
                       DiesOnlyAfterTear
<1>12. CASE UNCHANGED forkVars
  BY <1>12 DEF forkVars, ForkInv, ForkTypeOK, CountIsUnreaped, Uncounted,
               Unreaped, InStage,
               ServerEnded, DiesOnlyAfterTear
<1> QED
  BY <1>1, <1>2, <1>3, <1>4, <1>5, <1>6, <1>7, <1>8, <1>9, <1>10, <1>11, <1>12
  DEF ForkNext, Main, ReapingLoop

\* The invariant holds in every state of the forking servers.
LEMMA ForkSpecInv == ForkSpec => []ForkInv
  BY ForkInitInv, ForkNextInv, PTL DEF ForkSpec

-----------------------------------------------------------------------------
\* Every variable of both servers keeps its type; the unsigned childProcCount
\* never goes below 0.
THEOREM ForkTypeCorrect == ForkSpec => []ForkTypeOK
<1>1. ForkInv => ForkTypeOK
  BY DEF ForkInv
<1> QED
  BY <1>1, ForkSpecInv, PTL

\* Unless the handler tears childProcCount++ the count is the number of children
\* that have not been reaped, however many signals coalesce.
THEOREM CountCorrect == ForkSpec => []CountIsUnreaped
<1>1. ForkInv => CountIsUnreaped
  BY DEF ForkInv
<1> QED
  BY <1>1, ForkSpecInv, PTL

\* waitpid() finds no child at all only after a torn increment.
THEOREM DeathExplained == ForkSpec => []DiesOnlyAfterTear
<1>1. ForkInv => DiesOnlyAfterTear
  BY DEF ForkInv
<1> QED
  BY <1>1, ForkSpecInv, PTL
-----------------------------------------------------------------------------
\* The count is never too low, torn or not, because what is stored is more than
\* the count at the time; so a handler that returns with the count at 0 leaves at
\* most the child that is not counted yet.
ZombieInv ==
  /\ Cardinality(Unreaped) <= childProcCount + Uncounted
  /\ main_at = "store" => loaded >= childProcCount
  /\ kind = "SIGCHLD" /\ ~pending /\ ~reaping /\ ~ServerEnded =>
       Cardinality(InStage("zombie")) <= 1

\* The zombies are some of the children that are not reaped.
LEMMA ZombiesFewer ==
  ASSUME ForkTypeOK
  PROVE  /\ Cardinality(InStage("zombie")) \in Nat
         /\ Cardinality(InStage("zombie")) <= Cardinality(Unreaped)
<1>1. InStage("zombie") \subseteq Unreaped /\ IsFiniteSet(Unreaped)
  BY UnreapedFinite DEF Unreaped
<1> QED
  BY <1>1, FS_Subset, FS_CardinalityType

\* Every step preserves ZombieInv; Fork and Reap move both sides of its first part.
LEMMA ZombieStep ==
  ASSUME ForkInv, ZombieInv, [ForkNext]_forkVars
  PROVE  ZombieInv'
<1>1. /\ childProcCount \in Nat /\ loaded \in Nat /\ Uncounted \in {0, 1}
      /\ Cardinality(Unreaped) \in Nat /\ ForkTypeOK
  BY UnreapedFinite DEF ForkInv, ForkTypeOK, Uncounted
<1>2. ASSUME NEW c \in Connections, ConnectClient(c) PROVE ZombieInv'
  <2>1. Unreaped' = Unreaped /\ InStage("zombie")' = InStage("zombie")
    BY <1>2 DEF ForkInv, ForkTypeOK, ConnectClient, Unreaped, InStage
  <2> QED
    BY <1>2, <2>1 DEF ConnectClient, ZombieInv, Uncounted, ServerEnded
<1>3. CASE AcceptTCPConnection
  <2>1. Unreaped' = Unreaped /\ InStage("zombie")' = InStage("zombie")
    BY <1>3 DEF ForkInv, ForkTypeOK, AcceptTCPConnection, Unreaped, InStage
  <2> QED
    BY <1>3, <2>1 DEF AcceptTCPConnection, Running, ZombieInv, Uncounted,
                      ServerEnded
<1>4. CASE Fork
  <2>1. /\ Unreaped' = Unreaped \union {clntSock} /\ clntSock \notin Unreaped
        /\ InStage("zombie")' = InStage("zombie")
    BY <1>4 DEF ForkInv, ForkTypeOK, Fork, Running, Unreaped, InStage
  <2>2. Cardinality(Unreaped') = Cardinality(Unreaped) + 1
    BY <1>1, <2>1, UnreapedFinite, FS_AddElement
  <2>3. Uncounted = 0 /\ Uncounted' = 1 /\ childProcCount' = childProcCount
    BY <1>4 DEF Fork, Running, Uncounted
  <2> QED
    BY <1>1, <1>4, <2>1, <2>2, <2>3 DEF Fork, Running, ZombieInv, ServerEnded
<1>5. CASE AcceptFails \/ ForkFails
  BY <1>5 DEF AcceptFails, ForkFails, Running, ZombieInv, Uncounted, Unreaped, InStage,
              ServerEnded
<1>6. CASE Load
  BY <1>1, <1>6 DEF Load, Running, ZombieInv, Uncounted, Unreaped, InStage,
                    ServerEnded
<1>7. CASE Store
  <2>1. /\ Unreaped' = Unreaped /\ InStage("zombie")' = InStage("zombie")
        /\ Uncounted = 1 /\ Uncounted' = 0 /\ childProcCount' = loaded + 1
        /\ loaded >= childProcCount
    BY <1>7 DEF Store, Running, ZombieInv, Uncounted, Unreaped, InStage
  <2> QED
    BY <1>1, <1>7, <2>1 DEF Store, Running, ZombieInv, ServerEnded
<1>8. ASSUME NEW c \in Connections, ChildExits(c) PROVE ZombieInv'
  <2>1. Unreaped' = Unreaped
    BY <1>8 DEF ForkInv, ForkTypeOK, ChildExits, Unreaped, InStage
  <2> QED
    BY <1>8, <2>1 DEF ChildExits, ZombieInv, Uncounted, ServerEnded
<1>9. CASE DeliverSigchld
  BY <1>9 DEF DeliverSigchld, ZombieInv, Uncounted, Unreaped, InStage, ServerEnded
<1>10. CASE Reap
  <2>1. PICK c \in InStage("zombie") : child' = [child EXCEPT ![c] = "reaped"]
    BY <1>10 DEF Reap
  <2>2. Unreaped' = Unreaped \ {c} /\ c \in Unreaped
    BY <2>1 DEF ForkInv, ForkTypeOK, Unreaped, InStage
  <2>3. Cardinality(Unreaped') = Cardinality(Unreaped) - 1
    BY <1>1, <2>2, UnreapedFinite, FS_RemoveElement
  <2>4. Uncounted' = Uncounted /\ childProcCount' = childProcCount - 1
    BY <1>10 DEF Reap, Uncounted
  <2> QED
    BY <1>1, <1>10, <2>3, <2>4 DEF Reap, ZombieInv
<1>11. CASE Return
  <2>1. /\ Unreaped' = Unreaped /\ InStage("zombie")' = InStage("zombie")
        /\ Uncounted' = Uncounted
    BY <1>11 DEF Return, Unreaped, InStage, Uncounted
  <2>2. Cardinality(InStage("zombie")) <= 1
    <3>1. CASE InStage("zombie") = {}
      BY <3>1, FS_EmptySet
    <3>2. CASE childProcCount = 0
      BY <1>1, <3>2, ZombiesFewer DEF ZombieInv
    <3> QED
      BY <1>11, <3>1, <3>2 DEF Return
  <2> QED
    BY <1>11, <2>1, <2>2 DEF Return, ZombieInv
<1>12. CASE WaitFails
  <2>1. Cardinality(Unreaped) = 0 /\ Unreaped' = Unreaped
    BY <1>12, FS_EmptySet DEF WaitFails, Unreaped, InStage
  <2>2. Uncounted' = 0 /\ childProcCount' = childProcCount
    BY <1>12 DEF WaitFails, Uncounted
  <2> QED
    BY <1>1, <1>12, <2>1, <2>2 DEF WaitFails, ZombieInv, ServerEnded
<1>13. CASE UNCHANGED forkVars
  BY <1>13 DEF forkVars, ZombieInv, Uncounted, Unreaped, InStage, ServerEnded
<1> QED
  BY <1>2, <1>3, <1>4, <1>5, <1>6, <1>7, <1>8, <1>9, <1>10, <1>11, <1>12, <1>13
  DEF ForkNext, Main, ReapingLoop

\* Signals that coalesce lose nothing: at most one child stays a zombie while the
\* server with the handler waits, for any number of clients.
THEOREM ZombiesReaped == ForkSpec => []AtMostOneZombieLeft
<1>1. ForkInit => ZombieInv
  <2> SUFFICES ASSUME ForkInit PROVE ZombieInv
    OBVIOUS
  <2>1. Unreaped = {} /\ InStage("zombie") = {}
    BY DEF ForkInit, Unreaped, InStage
  <2> QED
    BY <2>1, FS_EmptySet DEF ForkInit, ZombieInv, Uncounted
<1>2. ForkInv /\ ZombieInv /\ [ForkNext]_forkVars => ZombieInv'
  BY ZombieStep
<1>3. ZombieInv => AtMostOneZombieLeft
  BY DEF ZombieInv, AtMostOneZombieLeft, Running, ServerEnded
<1> QED
  BY <1>1, <1>2, <1>3, ForkSpecInv, PTL DEF ForkSpec

-----------------------------------------------------------------------------
(* The echo session.                                                       *)

USE SizesOfLines

\* The bytes of a stream are those that follow the byte numbered from.
Counts(s, from) == \A k \in DOMAIN s : s[k] = from + k

\* Bytes the server has received and not yet sent back.
held == IF server = "send" THEN Len(echo) ELSE 0

\* While the client runs, the bytes under way to it follow those it has printed;
\* while both run, those the server holds come next, and then those under way
\* to the server, up to the last byte sent.
BytesInOrder ==
  /\ Counts(printed, 0)
  /\ Len(printed) <= sent
  /\ Counts(buffer, sent)
  /\ client \notin Ended =>
       /\ Counts(toClient, Len(printed))
       /\ Len(printed) + Len(toClient) <= sent
       /\ server \notin Ended =>
            /\ server = "send" => Counts(echo, Len(printed) + Len(toClient))
            /\ Counts(toServer, Len(printed) + Len(toClient) + held)
            /\ sent = Len(printed) + Len(toClient) + held + Len(toServer)

\* A client that waits for an echo has sent something for it, unless its input
\* had ended.
SentSomething ==
  /\ client = "send" /\ ~eof => buffer # <<>>
  /\ client = "recv" /\ ~eof => Len(printed) < sent

SessionInv == TypeOK /\ BytesInOrder /\ SentSomething

\* While no recv() has split what was sent to it: a running client has a server,
\* unless accept() failed, and no reset; an echo goes back as a whole and on its
\* own; and a server that has closed the connection leaves one byte for the
\* client, the last one.
OneMessage ==
  /\ client = "connect" =>
       /\ server \in {"listen", "accept", "error", "aborted"}
       /\ ~connected /\ ~reset /\ sent = 0
  /\ server \in {"listen", "accept", "aborted"} => toClient = <<>>
  /\ ~split /\ client \in {"prompt", "send", "closed"} => Len(printed) = sent
  /\ ~split /\ server # "aborted" =>
       /\ client \in {"prompt", "send"} => server \notin Ended
       /\ client \in {"prompt", "send", "recv"} =>
            /\ ~reset /\ server \notin {"listen", "error"}
            /\ server = "closed" => Len(toClient) = 1
            /\ toClient # <<>> => Len(printed) + Len(toClient) = sent
            /\ server = "send" => echo # <<>> /\ toServer = <<>> /\ toClient = <<>>

-----------------------------------------------------------------------------
(* Sequences of consecutive bytes.                                         *)

\* What recv() returns and what it leaves.
LEMMA PieceAndRest ==
  ASSUME NEW s \in Seq(Nat), NEW piece \in Pieces(s)
  PROVE  /\ piece \in Seq(Nat) /\ Len(piece) \in 1 .. BufferSize - 1
         /\ Rest(s, piece) \in Seq(Nat)
         /\ Len(s) = Len(piece) + Len(Rest(s, piece))
         /\ \A from \in Nat : Counts(s, from) =>
              Counts(piece, from) /\ Counts(Rest(s, piece), from + Len(piece))
<1>1. PICK n \in 1 .. (IF Len(s) < BufferSize - 1 THEN Len(s) ELSE BufferSize - 1) :
        piece = SubSeq(s, 1, n)
  BY DEF Pieces
<1>2. Len(s) \in Nat /\ n \in 1 .. BufferSize - 1 /\ n <= Len(s)
      /\ \A k \in 1 .. Len(s) : s[k] \in Nat
  BY <1>1, LenProperties
<1>3. /\ piece \in Seq(Nat) /\ Len(piece) = n
      /\ \A k \in 1 .. n : piece[k] = s[k]
  <2>1. \A k \in 1 .. n : s[k] \in Nat
    BY <1>2
  <2> QED
    BY <1>1, <1>2, <2>1, SubSeqProperties
<1>4. /\ Rest(s, piece) \in Seq(Nat) /\ Len(Rest(s, piece)) = Len(s) - n
      /\ \A k \in 1 .. Len(s) - n : Rest(s, piece)[k] = s[n + k]
  <2>1. Rest(s, piece) = SubSeq(s, n + 1, Len(s))
    BY <1>3 DEF Rest
  <2>2. \A k \in n + 1 .. Len(s) : s[k] \in Nat
    BY <1>2
  <2> HIDE DEF Rest
  <2>3. /\ SubSeq(s, n + 1, Len(s)) \in Seq(Nat)
        /\ Len(SubSeq(s, n + 1, Len(s))) = IF n + 1 <= Len(s) THEN Len(s) - (n + 1) + 1 ELSE 0
        /\ \A k \in 1 .. Len(s) - (n + 1) + 1 :
             SubSeq(s, n + 1, Len(s))[k] = s[n + 1 + k - 1]
    BY <1>2, <2>2, SubSeqProperties
  <2> QED
    BY <1>2, <2>1, <2>3
<1>5. DOMAIN piece = 1 .. n /\ DOMAIN Rest(s, piece) = 1 .. Len(s) - n
      /\ DOMAIN s = 1 .. Len(s)
  BY <1>3, <1>4, LenProperties
<1>6. ASSUME NEW from \in Nat, Counts(s, from)
      PROVE  Counts(piece, from) /\ Counts(Rest(s, piece), from + Len(piece))
  <2>1. \A k \in 1 .. Len(s) : s[k] = from + k
    <3>1. DOMAIN s = 1 .. Len(s)
      BY <1>5
    <3> QED
      BY <1>6, <3>1, Zenon DEF Counts
  <2>2. ASSUME NEW k \in 1 .. n PROVE piece[k] = from + k
    <3>1. k \in 1 .. Len(s)
      BY <1>2
    <3> QED
      BY <1>3, <2>1, <3>1, Zenon
  <2>3. ASSUME NEW k \in 1 .. Len(s) - n
        PROVE  Rest(s, piece)[k] = from + Len(piece) + k
    <3>1. n + k \in 1 .. Len(s) /\ from + (n + k) = from + n + k
      BY <1>2
    <3>2. Rest(s, piece)[k] = s[n + k]
      BY <1>4
    <3> QED
      BY <1>3, <2>1, <3>1, <3>2
  <2> QED
    BY <1>5, <2>2, <2>3 DEF Counts
<1> QED
  BY <1>2, <1>3, <1>4, <1>6

\* A stream goes on with what is appended to it.
LEMMA CountsConcat ==
  ASSUME NEW s \in Seq(Nat), NEW t \in Seq(Nat), NEW from \in Nat,
         Counts(s, from), Counts(t, from + Len(s))
  PROVE  /\ s \o t \in Seq(Nat)
         /\ Len(s \o t) = Len(s) + Len(t)
         /\ Counts(s \o t, from)
<1>1. Len(s) \in Nat /\ Len(t) \in Nat /\ DOMAIN s = 1 .. Len(s)
      /\ DOMAIN t = 1 .. Len(t)
  BY LenProperties
<1>2. /\ s \o t \in Seq(Nat)
      /\ Len(s \o t) = Len(s) + Len(t)
      /\ \A k \in 1 .. Len(s) + Len(t) :
           (s \o t)[k] = IF k <= Len(s) THEN s[k] ELSE t[k - Len(s)]
  BY ConcatProperties
<1>3. DOMAIN (s \o t) = 1 .. Len(s) + Len(t)
  BY <1>2, LenProperties
<1>4. ASSUME NEW k \in 1 .. Len(s) + Len(t) PROVE (s \o t)[k] = from + k
  <2>1. CASE k <= Len(s)
    <3>1. k \in DOMAIN s
      BY <1>1, <2>1
    <3>2. s[k] = from + k
      BY <3>1 DEF Counts
    <3>3. (s \o t)[k] = s[k]
      BY <1>2, <2>1
    <3> QED
      BY <3>2, <3>3
  <2>2. CASE k > Len(s)
    <3>1. k - Len(s) \in DOMAIN t
      BY <1>1, <2>2
    <3>2. t[k - Len(s)] = from + Len(s) + (k - Len(s))
      BY <3>1 DEF Counts
    <3>3. (s \o t)[k] = t[k - Len(s)]
      BY <1>1, <1>2, <2>2
    <3> QED
      BY <1>1, <3>2, <3>3
  <2> QED
    BY <1>1, <2>1, <2>2
<1> QED
  BY <1>2, <1>3, <1>4 DEF Counts

\* Nothing follows anything.
LEMMA CountsEmpty == \A from : Counts(<<>>, from)
  BY DEF Counts

\* The lengths are numbers.
LEMMA Lengths ==
  ASSUME TypeOK
  PROVE  /\ \A s \in {buffer, echo, toServer, toClient, printed} :
              s \in Seq(Nat) /\ Len(s) \in Nat
         /\ held \in Nat /\ sent \in Nat
         /\ BufferSize \in Nat
<1>1. \A s \in {buffer, echo, toServer, toClient, printed} : s \in Seq(Nat)
  BY DEF TypeOK
<1>2. \A s \in {buffer, echo, toServer, toClient, printed} : Len(s) \in Nat
  BY <1>1, LenProperties
<1> QED
  BY <1>1, <1>2 DEF TypeOK, held
-----------------------------------------------------------------------------
\* The initial state satisfies the invariant.
LEMMA SessionInitInv == Init => SessionInv
<1> SUFFICES ASSUME Init PROVE SessionInv
  OBVIOUS
<1>1. /\ client = "connect" /\ server = "listen" /\ sent = 0
      /\ \A s \in {buffer, echo, toServer, toClient, printed} : s = <<>>
      /\ \A flag \in {eof, connected, reset, split} : flag \in BOOLEAN
      /\ typed \in Inputs
  BY DEF Init
<1>2. <<>> \in Seq(Nat) /\ Len(<<>>) = 0
  BY EmptySeq
<1>3. TypeOK
  BY <1>1, <1>2 DEF TypeOK
<1>4. BytesInOrder
  BY <1>1, <1>2, CountsEmpty DEF BytesInOrder, held, Ended
<1>5. SentSomething
  BY <1>1 DEF SentSomething
<1> QED
  BY <1>3, <1>4, <1>5 DEF SessionInv

\* Setting up the connection moves no byte.
LEMMA ConnectionInv == SessionInv /\ (Listen \/ Connect \/ Accept) => SessionInv'
<1> SUFFICES ASSUME SessionInv, Listen \/ Connect \/ Accept PROVE SessionInv'
  OBVIOUS
<1> USE DEF SessionInv
<1>1. UNCHANGED <<typed, eof, buffer, echo, wire, sent, printed, split>>
  BY DEF Listen, Connect, Accept
<1>2. TypeOK'
  BY <1>1 DEF TypeOK, Listen, Connect, Accept, wire, Ended
<1>3. /\ client' \in Ended \/ client \notin Ended
      /\ server' \in Ended \/ server \notin Ended
      /\ (server # "send" /\ server' # "send") \/ UNCHANGED server
      /\ client' \notin {"send", "recv"}  \/ UNCHANGED client
  BY DEF Listen, Connect, Accept, Ended
<1>4. BytesInOrder'
  BY <1>1, <1>3 DEF BytesInOrder, wire, held, Ended
<1>5. SentSomething'
  BY <1>1, <1>3 DEF SentSomething
<1> QED
  BY <1>2, <1>4, <1>5

\* fgets() fills the buffer with the bytes that follow those sent.
LEMMA PromptInv == SessionInv /\ Prompt => SessionInv'
<1> SUFFICES ASSUME SessionInv, Prompt PROVE SessionInv'
  OBVIOUS
<1> USE DEF SessionInv
<1>1. /\ client = "prompt" /\ client' = "send"
      /\ UNCHANGED <<server, echo, toServer, toClient, connected, reset, sent,
                     printed, split>>
  BY DEF Prompt, wire
<1>2. /\ buffer' \in Seq(Nat) /\ Len(buffer') < BufferSize
      /\ Counts(buffer', sent)
      /\ ~eof' => buffer' # <<>>
      /\ typed' \in Seq(Nat \ {0}) /\ eof' \in BOOLEAN
  <2>1. CASE typed = <<>>
    <3>1. buffer' = <<>> /\ eof' = TRUE /\ typed' = typed
      BY <2>1 DEF Prompt
    <3> QED
      BY <3>1, CountsEmpty, EmptySeq DEF TypeOK
  <2>2. CASE typed # <<>>
    <3> DEFINE size == IF Head(typed) < BufferSize - 2 THEN Head(typed)
                       ELSE BufferSize - 2
    <3>1. Head(typed) \in Nat \ {0} /\ Tail(typed) \in Seq(Nat \ {0})
      BY <2>2, HeadTailProperties DEF TypeOK
    <3>2. size \in 1 .. BufferSize - 1 /\ size <= Head(typed) /\ sent \in Nat
      BY <3>1 DEF TypeOK
    <3>3. /\ buffer' = [k \in 1 .. size |-> sent + k]
          /\ typed' = IF size = Head(typed) THEN Tail(typed)
                      ELSE <<Head(typed) - size>> \o Tail(typed)
          /\ eof' = eof
      BY <2>2 DEF Prompt
    <3> HIDE DEF size
    <3>4. typed' \in Seq(Nat \ {0})
      <4>1. CASE size = Head(typed)
        BY <3>1, <3>3, <4>1
      <4>2. CASE size # Head(typed)
        <5>1. Head(typed) - size \in Nat \ {0}
          BY <3>1, <3>2, <4>2
        <5>2. <<Head(typed) - size>> \in Seq(Nat \ {0})
          BY <5>1
        <5> QED
          BY <3>1, <3>3, <4>2, <5>2, ConcatProperties
      <4> QED
        BY <4>1, <4>2
    <3>5. buffer' \in Seq(Nat) /\ Len(buffer') = size /\ DOMAIN buffer' = 1 .. size
      BY <3>2, <3>3
    <3>6. buffer' # <<>>
      BY <3>2, <3>5
    <3> QED
      <4>1. Len(buffer') < BufferSize
        BY <3>2, <3>5
      <4>2. \A k \in 1 .. size : buffer'[k] = sent + k
        BY <3>3
      <4>3. Counts(buffer', sent)
        BY <3>5, <4>2, Zenon DEF Counts
      <4>4. eof' \in BOOLEAN
        BY <3>3 DEF TypeOK
      <4> QED
        BY <3>4, <3>5, <3>6, <4>1, <4>3, <4>4
  <2> QED
    BY <2>1, <2>2
<1>3. TypeOK'
  BY <1>1, <1>2 DEF TypeOK
<1>4. BytesInOrder'
  BY <1>1, <1>2 DEF BytesInOrder, held, Ended
<1>5. SentSomething'
  BY <1>1, <1>2 DEF SentSomething
<1> QED
  BY <1>3, <1>4, <1>5

\* send() puts the buffer behind what is under way to the server.
LEMMA ClientSendInv == SessionInv /\ ClientSend => SessionInv'
<1> SUFFICES ASSUME SessionInv, ClientSend PROVE SessionInv'
  OBVIOUS
<1> USE DEF SessionInv
<1>0. /\ client = "send"
      /\ UNCHANGED <<server, typed, eof, echo, toClient, connected, printed, split>>
  BY DEF ClientSend
<1>1. CASE client' = "error" /\ UNCHANGED <<buffer, toServer, reset, sent>>
  BY <1>0, <1>1 DEF TypeOK, BytesInOrder, SentSomething, held, Ended
<1>2. CASE /\ client' = "recv"
           /\ toServer' = IF server \in Ended THEN toServer ELSE toServer \o buffer
           /\ reset' = (reset \/ (server \in Ended /\ buffer # <<>>))
           /\ sent' = sent + Len(buffer)
           /\ buffer' = <<>>
  <2>1. /\ \A s \in {buffer, echo, toServer, toClient, printed} :
              s \in Seq(Nat) /\ Len(s) \in Nat
        /\ held \in Nat /\ sent \in Nat /\ held' = held
    BY <1>0, Lengths DEF held
  <2>2. /\ server \notin Ended =>
             /\ toServer' \in Seq(Nat)
             /\ Len(toServer') = Len(toServer) + Len(buffer)
             /\ Counts(toServer', Len(printed) + Len(toClient) + held)
        /\ server \in Ended => toServer' = toServer
    <3>1. CASE server \in Ended
      BY <1>2, <3>1
    <3>2. CASE server \notin Ended
      <4> DEFINE from == Len(printed) + Len(toClient) + held
      <4>1. from \in Nat
        BY <2>1
      <4>2. Counts(toServer, from) /\ Counts(buffer, sent) /\ sent = from + Len(toServer)
        BY <1>0, <3>2 DEF BytesInOrder, Ended
      <4> HIDE DEF from
      <4>3. Counts(buffer, from + Len(toServer))
        BY <4>2, Zenon
      <4>4. toServer' = toServer \o buffer
        BY <1>2, <3>2
      <4>5. /\ toServer \o buffer \in Seq(Nat)
            /\ Len(toServer \o buffer) = Len(toServer) + Len(buffer)
            /\ Counts(toServer \o buffer, from)
        BY <2>1, <4>1, <4>2, <4>3, CountsConcat
      <4> QED
        BY <3>2, <4>4, <4>5, Zenon DEF from
    <3> QED
      BY <3>1, <3>2
  <2>3. <<>> \in Seq(Nat) /\ Len(<<>>) = 0
    BY EmptySeq
  <2>4. TypeOK'
    <3>1. toServer' \in Seq(Nat) /\ buffer' \in Seq(Nat) /\ sent' \in Nat
          /\ Len(buffer') < BufferSize
      BY <1>2, <2>1, <2>2, <2>3
    <3> QED
      BY <1>0, <1>2, <3>1 DEF TypeOK, Ended
  <2>5. Counts(buffer', sent')
    BY <1>2, CountsEmpty
  <2>6. BytesInOrder'
    <3>2. Counts(printed', 0) /\ Len(printed') <= sent'
      <4>1. Counts(printed', 0) /\ Len(printed) <= sent
        BY <1>0, Zenon DEF BytesInOrder
      <4> QED
        BY <1>0, <1>2, <2>1, <4>1
    <3>3. client \notin Ended /\ client' \notin Ended
      BY <1>0, <1>2 DEF Ended
    <3>4. Counts(toClient', Len(printed')) /\ Len(printed) + Len(toClient) <= sent
      BY <1>0, <3>3, Zenon DEF BytesInOrder
    <3>5. Len(printed') + Len(toClient') <= sent'
      BY <1>0, <1>2, <2>1, <3>4
    <3>6. ASSUME server \notin Ended
          PROVE  /\ server' = "send" => Counts(echo', Len(printed') + Len(toClient'))
                 /\ Counts(toServer', Len(printed') + Len(toClient') + held')
                 /\ sent' = Len(printed') + Len(toClient') + held' + Len(toServer')
      <4>1. server = "send" => Counts(echo, Len(printed) + Len(toClient))
        BY <3>3, <3>6, Zenon DEF BytesInOrder
      <4>2. sent = Len(printed) + Len(toClient) + held + Len(toServer)
        BY <3>3, <3>6, Zenon DEF BytesInOrder
      <4>3. sent' = Len(printed') + Len(toClient') + held' + Len(toServer')
        BY <1>0, <1>2, <2>1, <2>2, <3>6, <4>2
      <4> QED
        BY <1>0, <2>1, <2>2, <3>6, <4>1, <4>3, Zenon
    <3> QED
      BY <1>0, <2>5, <3>2, <3>4, <3>5, <3>6, Zenon DEF BytesInOrder
  <2>7. ~eof => Len(buffer) > 0
    BY <1>0, <2>1, EmptySeq DEF SentSomething
  <2>8. SentSomething'
    BY <1>0, <1>2, <2>1, <2>7 DEF SentSomething, BytesInOrder
  <2> QED
    BY <2>4, <2>6, <2>8
<1> QED
  BY <1>1, <1>2 DEF ClientSend

\* What the client prints follows what it has printed.
LEMMA ClientRecvInv == SessionInv /\ ClientRecv => SessionInv'
<1> SUFFICES ASSUME SessionInv, ClientRecv PROVE SessionInv'
  OBVIOUS
<1> USE DEF SessionInv
<1>0. /\ client = "recv"
      /\ UNCHANGED <<server, typed, eof, buffer, echo, toServer, connected, sent>>
  BY DEF ClientRecv
<1>1. /\ \A s \in {buffer, echo, toServer, toClient, printed} :
            s \in Seq(Nat) /\ Len(s) \in Nat
      /\ held \in Nat /\ sent \in Nat /\ held' = held
  BY <1>0, Lengths DEF held
<1>2. ASSUME NEW piece \in Pieces(toClient),
             toClient' = Rest(toClient, piece),
             split' = (split \/ toClient' # <<>>),
             ClientRound(piece)
      PROVE  SessionInv'
  <2>1. /\ piece \in Seq(Nat) /\ Len(piece) \in Nat
        /\ toClient' \in Seq(Nat) /\ Len(toClient') \in Nat
        /\ Len(toClient) = Len(piece) + Len(toClient')
        /\ Counts(piece, Len(printed))
        /\ Counts(toClient', Len(printed) + Len(piece))
    BY <1>0, <1>1, <1>2, PieceAndRest, LenProperties DEF BytesInOrder, Ended
  <2>2. /\ printed' \in Seq(Nat)
        /\ Len(printed') = Len(printed) + Len(piece)
        /\ Counts(printed', 0)
    <3>1. printed' = printed \o piece
      BY <1>2 DEF ClientRound
    <3> QED
      BY <1>1, <2>1, <3>1, CountsConcat DEF BytesInOrder
  <2>3. /\ client' \in {"prompt", "closed"} /\ reset' \in BOOLEAN /\ split' \in BOOLEAN
    BY <1>2 DEF ClientRound, TypeOK
  <2>4. TypeOK'
    BY <1>0, <2>1, <2>2, <2>3 DEF TypeOK, Ended
  <2>5. BytesInOrder'
    BY <1>0, <1>1, <2>1, <2>2 DEF BytesInOrder, Ended
  <2>6. SentSomething'
    BY <2>3 DEF SentSomething
  <2> QED
    BY <2>4, <2>5, <2>6
<1>3. CASE /\ UNCHANGED <<toClient, split>>
           /\ ClientRound(<<>>)
  <2>1. client' = "closed" /\ reset' \in BOOLEAN /\ printed' = printed
    BY <1>1, <1>3, ConcatEmptySeq, EmptySeq DEF ClientRound, TypeOK
  <2> QED
    BY <1>0, <1>3, <2>1 DEF TypeOK, BytesInOrder, SentSomething, Ended
<1>4. CASE /\ client' = "error"
           /\ UNCHANGED <<toClient, split, reset, printed>>
  BY <1>0, <1>4 DEF TypeOK, BytesInOrder, SentSomething, Ended
<1> QED
  BY <1>2, <1>3, <1>4 DEF ClientRecv

\* The server takes a beginning of what is under way to it.
LEMMA ServerRecvInv == SessionInv /\ ServerRecv => SessionInv'
<1> SUFFICES ASSUME SessionInv, ServerRecv PROVE SessionInv'
  OBVIOUS
<1> USE DEF SessionInv
<1>0. /\ server = "recv"
      /\ UNCHANGED <<client, typed, eof, buffer, toClient, connected, reset, sent,
                     printed>>
  BY DEF ServerRecv
<1>1. /\ \A s \in {buffer, echo, toServer, toClient, printed} :
            s \in Seq(Nat) /\ Len(s) \in Nat
      /\ held = 0 /\ sent \in Nat /\ BufferSize \in Nat
  BY <1>0, Lengths DEF held
<1>2. SentSomething'
  BY <1>0 DEF SentSomething
<1>3. ASSUME NEW piece \in Pieces(toServer),
             echo' = piece,
             toServer' = Rest(toServer, piece),
             split' = (split \/ toServer' # <<>>),
             server' = "send"
      PROVE  SessionInv'
  <2>1. /\ echo' \in Seq(Nat) /\ Len(echo') \in Nat /\ Len(echo') < BufferSize
        /\ toServer' \in Seq(Nat) /\ Len(toServer') \in Nat
        /\ Len(toServer) = Len(echo') + Len(toServer')
        /\ client \notin Ended =>
             /\ Counts(echo', Len(printed) + Len(toClient))
             /\ Counts(toServer', Len(printed) + Len(toClient) + Len(echo'))
    <3> DEFINE from == Len(printed) + Len(toClient)
    <3>1. /\ piece \in Seq(Nat) /\ Len(piece) \in 1 .. BufferSize - 1
          /\ Rest(toServer, piece) \in Seq(Nat)
          /\ Len(toServer) = Len(piece) + Len(Rest(toServer, piece))
      BY <1>1, <1>3, PieceAndRest, Zenon
    <3>2. Len(Rest(toServer, piece)) \in Nat /\ from \in Nat
      BY <1>1, <3>1, LenProperties
    <3>3. ASSUME client \notin Ended
          PROVE  Counts(piece, from) /\ Counts(Rest(toServer, piece), from + Len(piece))
      <4>1. Counts(toServer, from + held) /\ from + held = from
        BY <1>0, <1>1, <3>2, <3>3 DEF BytesInOrder, Ended
      <4> HIDE DEF from
      <4>2. Counts(toServer, from)
        BY <4>1, Zenon
      <4> QED
        BY <1>1, <1>3, <3>2, <4>2, PieceAndRest, Zenon
    <3>4. Len(piece) \in Nat /\ Len(piece) < BufferSize
      BY <1>1, <3>1
    <3> QED
      BY <1>3, <3>1, <3>2, <3>3, <3>4, Zenon
  <2>2. TypeOK'
    BY <1>0, <1>3, <2>1 DEF TypeOK
  <2>3. held' = Len(echo')
    BY <1>3 DEF held
  <2>4. BytesInOrder'
    BY <1>0, <1>1, <1>3, <2>1, <2>3 DEF BytesInOrder, Ended
  <2> QED
    BY <1>2, <2>2, <2>4
<1>4. CASE /\ toServer = <<>> /\ client \in Ended
           /\ echo' = <<>>
           /\ server' = "send"
           /\ UNCHANGED <<toServer, split>>
  <2>1. echo' \in Seq(Nat) /\ Len(echo') < BufferSize
    BY <1>4, EmptySeq
  <2>2. TypeOK'
    BY <1>0, <1>4, <2>1 DEF TypeOK
  <2>3. BytesInOrder'
    BY <1>0, <1>4 DEF BytesInOrder
  <2> QED
    BY <1>2, <2>2, <2>3
<1>5. CASE /\ server' = "error"
           /\ UNCHANGED <<echo, toServer, split>>
  <2>1. TypeOK' /\ BytesInOrder'
    BY <1>0, <1>5 DEF TypeOK, BytesInOrder, Ended
  <2> QED
    BY <1>2, <2>1
<1> QED
  BY <1>3, <1>4, <1>5 DEF ServerRecv

\* What the server holds goes behind what is under way to the client.
LEMMA ServerSendInv == SessionInv /\ ServerSend => SessionInv'
<1> SUFFICES ASSUME SessionInv, ServerSend PROVE SessionInv'
  OBVIOUS
<1> USE DEF SessionInv
<1>0. /\ server = "send"
      /\ UNCHANGED <<client, typed, eof, buffer, echo, toServer, connected, sent,
                     printed, split>>
  BY DEF ServerSend
<1>1. /\ \A s \in {buffer, echo, toServer, toClient, printed} :
            s \in Seq(Nat) /\ Len(s) \in Nat
      /\ held = Len(echo) /\ sent \in Nat /\ server \notin Ended
  BY <1>0, Lengths DEF held, Ended
<1>2. SentSomething'
  BY <1>0 DEF SentSomething
<1>3. CASE /\ server' = IF Len(echo) > 1 THEN "recv" ELSE "closed"
           /\ toClient' = IF client \in Ended THEN toClient ELSE toClient \o echo
           /\ reset' = (reset \/ (client \in Ended /\ echo # <<>>)
                              \/ (server' = "closed" /\ toServer # <<>>))
  <2>1. /\ client \notin Ended =>
             /\ toClient' \in Seq(Nat) /\ Len(toClient') \in Nat
             /\ Len(toClient') = Len(toClient) + Len(echo)
             /\ Counts(toClient', Len(printed))
        /\ client \in Ended => toClient' = toClient
    BY <1>0, <1>1, <1>3, CountsConcat, LenProperties DEF BytesInOrder
  <2>2. server' \in {"recv", "closed"} /\ reset' \in BOOLEAN
    BY <1>3 DEF TypeOK
  <2>3. TypeOK'
    <3>1. toClient' \in Seq(Nat)
      BY <1>1, <2>1
    <3> QED
      BY <1>0, <2>2, <3>1 DEF TypeOK, Ended
  <2>4. held' = 0
    BY <2>2 DEF held
  <2>5. BytesInOrder'
    <3>1. Counts(printed', 0) /\ Len(printed') <= sent' /\ Counts(buffer', sent')
      BY <1>0, Zenon DEF BytesInOrder
    <3>2. ASSUME client \notin Ended
          PROVE  /\ Counts(toServer, Len(printed) + Len(toClient) + held)
                 /\ sent = Len(printed) + Len(toClient) + held + Len(toServer)
      BY <1>1, <3>2, Zenon DEF BytesInOrder
    <3>3. ASSUME client \notin Ended
          PROVE  /\ Len(printed') + Len(toClient') + held'
                      = Len(printed) + Len(toClient) + held
                 /\ Len(printed') + Len(toClient') <= sent'
                 /\ sent' = Len(printed') + Len(toClient') + held' + Len(toServer')
      BY <1>0, <1>1, <2>1, <2>4, <3>2, <3>3
    <3>4. client \notin Ended =>
             Counts(toServer', Len(printed') + Len(toClient') + held')
      BY <1>0, <3>2, <3>3, Zenon
    <3> QED
      BY <1>0, <2>1, <2>2, <3>1, <3>3, <3>4 DEF BytesInOrder
  <2> QED
    BY <1>2, <2>3, <2>5
<1>4. CASE /\ server' = "error"
           /\ UNCHANGED <<toClient, reset>>
  <2>1. TypeOK' /\ BytesInOrder'
    BY <1>0, <1>4 DEF TypeOK, BytesInOrder, Ended
  <2> QED
    BY <1>2, <2>1
<1> QED
  BY <1>3, <1>4 DEF ServerSend

\* The invariant holds in every reachable state.
THEOREM SessionInvariance == Spec => []SessionInv
<1>1. SessionInv /\ [Next]_vars => SessionInv'
  <2> SUFFICES ASSUME SessionInv, UNCHANGED vars PROVE SessionInv'
    BY ConnectionInv, PromptInv, ClientSendInv, ClientRecvInv, ServerRecvInv,
       ServerSendInv DEF Next, Client, Server
  <2> QED
    BY DEF vars, wire, SessionInv, TypeOK, BytesInOrder, SentSomething, held
<1> QED
  BY SessionInitInv, <1>1, PTL DEF Spec

\* The client prints what it has sent, from the first byte on and in order,
\* however the stream is cut.
THEOREM PrintedInOrder == Spec => []EchoInOrder
<1>1. SessionInv => EchoInOrder
  BY DEF SessionInv, BytesInOrder, Counts, EchoInOrder
<1> QED
  BY <1>1, SessionInvariance, PTL

\* Client and server wait for each other with nothing under way only at the end of
\* the input.
THEOREM Standstill == Spec => []BothWaitOnlyAtEnd
<1>1. SessionInv => BothWaitOnlyAtEnd
  BY Lengths, EmptySeq
     DEF SessionInv, BytesInOrder, SentSomething, BothWaitOnlyAtEnd, held, Ended
<1> QED
  BY <1>1, SessionInvariance, PTL

-----------------------------------------------------------------------------
(* Messages that are not split.                                            *)

\* What the invariant says of the lengths, while both programs run and after
\* the server has gone.
LEMMA Sums ==
  ASSUME SessionInv
  PROVE  /\ \A s \in {buffer, echo, toServer, toClient, printed} :
              Len(s) \in Nat /\ (Len(s) = 0 <=> s = <<>>)
         /\ sent \in Nat /\ held \in Nat
         /\ client \notin Ended => Len(printed) + Len(toClient) <= sent
         /\ client \notin Ended /\ server \notin Ended =>
              sent = Len(printed) + Len(toClient) + held + Len(toServer)
<1>1. \A s \in {buffer, echo, toServer, toClient, printed} : s \in Seq(Nat) /\ Len(s) \in Nat
  BY Lengths DEF SessionInv
<1>2. \A s \in {buffer, echo, toServer, toClient, printed} : Len(s) = 0 <=> s = <<>>
  BY <1>1, EmptySeq
<1>3. sent \in Nat /\ held \in Nat
  BY Lengths DEF SessionInv
<1>4. client \notin Ended => Len(printed) + Len(toClient) <= sent
  BY Zenon DEF SessionInv, BytesInOrder
<1>5. client \notin Ended /\ server \notin Ended =>
        sent = Len(printed) + Len(toClient) + held + Len(toServer)
  BY Zenon DEF SessionInv, BytesInOrder
<1> QED
  BY <1>1, <1>2, <1>3, <1>4, <1>5, Zenon

\* Before the connection nothing has been sent.
LEMMA InitOneMessage == Init => OneMessage
<1> SUFFICES ASSUME Init PROVE OneMessage
  OBVIOUS
<1>1. /\ client = "connect" /\ server = "listen" /\ sent = 0
      /\ connected = FALSE /\ reset = FALSE /\ toClient = <<>>
  BY DEF Init
<1> QED
  BY <1>1 DEF OneMessage, Ended

\* A client that connects has a server in accept() and an empty stream.
LEMMA ConnectionOneMessage ==
  SessionInv /\ OneMessage /\ (Listen \/ Connect \/ Accept) => OneMessage'
<1> SUFFICES ASSUME SessionInv, OneMessage, Listen \/ Connect \/ Accept PROVE OneMessage'
  OBVIOUS
<1>0. UNCHANGED <<typed, eof, buffer, echo, toServer, toClient, sent, printed,
                  split>>
  BY DEF Listen, Connect, Accept, wire
<1>1. CASE Listen
  BY <1>0, <1>1 DEF Listen, OneMessage, Ended
<1>2. CASE Accept
  BY <1>0, <1>2 DEF Accept, OneMessage, Ended
<1>3. CASE Connect
  <2>1. CASE server # "accept"
    <3>1. client' = "error" /\ server' = server
      BY <1>3, <2>1 DEF Connect
    <3> QED
      BY <1>0, <3>1 DEF OneMessage
  <2>2. CASE server = "accept"
    <3>1. /\ client = "connect" /\ client' = "prompt" /\ server' = server
          /\ ~reset' /\ sent' = 0
      <4>1. client = "connect" /\ server' = server /\ connected' /\ reset' = reset
            /\ client' = IF connected' THEN "prompt" ELSE "error"
        BY <1>3, <2>2 DEF Connect
      <4>2. ~reset /\ sent = 0
        BY <4>1 DEF OneMessage
      <4> QED
        BY <1>0, <4>1, <4>2
    <3>2. Len(printed) = 0 /\ toClient = <<>>
      BY <1>0, <3>1, Sums DEF Ended
    <3> QED
      BY <1>0, <2>2, <3>1, <3>2 DEF OneMessage, Ended
  <2> QED
    BY <2>1, <2>2
<1> QED
  BY <1>1, <1>2, <1>3

\* What fgets() reads follows the whole echo.
LEMMA PromptOneMessage == SessionInv /\ OneMessage /\ Prompt => OneMessage'
  BY DEF Prompt, OneMessage, wire

\* A message finds the way to the server empty, and the server there.
LEMMA ClientSendOneMessage == SessionInv /\ OneMessage /\ ClientSend => OneMessage'
<1> SUFFICES ASSUME SessionInv, OneMessage, ClientSend, ~split, server # "aborted"
             PROVE  OneMessage'
  BY DEF OneMessage, ClientSend
<1>1. /\ client = "send" /\ ~reset /\ server \notin Ended
      /\ Len(printed) = sent /\ server # "listen"
  BY DEF ClientSend, OneMessage, Ended
<1>2. /\ client' = "recv" /\ ~reset'
      /\ UNCHANGED <<server, echo, toClient, connected, printed, split>>
  <2>1. /\ client' = "recv" /\ reset' = (reset \/ (server \in Ended /\ buffer # <<>>))
    BY <1>1 DEF ClientSend
  <2>2. ~reset'
    BY <1>1, <2>1, Zenon
  <2> QED
    BY <2>1, <2>2 DEF ClientSend
<1>3. toClient = <<>> /\ server # "send"
  <2>1. Len(toClient) = 0 /\ held = 0
    BY <1>1, Sums DEF Ended
  <2>2. toClient = <<>>
    BY <2>1, Sums
  <2>3. server = "send" => held # 0
    BY <1>1, Sums DEF held, OneMessage
  <2> QED
    BY <2>1, <2>2, <2>3
<1> QED
  BY <1>1, <1>2, <1>3 DEF OneMessage, Ended

\* recv() takes the whole echo.
LEMMA ClientRecvOneMessage == SessionInv /\ OneMessage /\ ClientRecv => OneMessage'
<1> SUFFICES ASSUME SessionInv, OneMessage, ClientRecv PROVE OneMessage'
  OBVIOUS
<1>0. /\ client = "recv" /\ client' \in {"prompt", "closed", "error"}
      /\ UNCHANGED <<server, echo, toServer, connected, sent>>
  BY DEF ClientRecv, ClientRound
<1>01. Rest(<<>>, <<>>) = <<>> /\ Pieces(<<>>) = {}
  BY EmptySeq DEF Rest, Pieces, SessionInv
<1>02. server \in {"listen", "accept", "aborted"} =>
         toClient' = <<>> /\ (server = "aborted" => client' = "error")
  BY <1>01 DEF OneMessage, ClientRecv
<1>1. CASE split'
  BY <1>0, <1>02, <1>1 DEF OneMessage
<1>2. CASE ~split' /\ split
  BY <1>2 DEF ClientRecv
<1>4. CASE ~split' /\ ~split /\ server = "aborted"
  BY <1>0, <1>02, <1>4 DEF OneMessage
<1>3. CASE ~split' /\ ~split /\ server # "aborted"
  <2>1. ~reset /\ server \notin {"listen", "error"}
    BY <1>0, <1>3 DEF OneMessage
  <2>2. ~(toClient = <<>> /\ server \in Ended)
    <3>1. toClient = <<>> => Len(toClient) = 0
      BY EmptySeq
    <3> QED
      BY <1>0, <1>3, <2>1, <3>1 DEF OneMessage, Ended
  <2>3. PICK piece \in Pieces(toClient) :
          /\ toClient' = Rest(toClient, piece)
          /\ split' = (split \/ toClient' # <<>>)
          /\ ClientRound(piece)
    BY <2>1, <2>2 DEF ClientRecv
  <2>4. toClient' = <<>> /\ toClient \in Seq(Nat) /\ printed \in Seq(Nat)
    BY <1>3, <2>3 DEF SessionInv, TypeOK
  <2>5. /\ piece \in Seq(Nat) /\ Len(piece) \in 1 .. BufferSize - 1
        /\ Len(toClient) = Len(piece) + Len(<<>>)
    BY <2>3, <2>4, PieceAndRest, Zenon
  <2>6. Len(<<>>) = 0 /\ Len(piece) > 0 /\ Len(piece) \in Nat
    BY <2>5, EmptySeq DEF SessionInv
  <2>7. Len(toClient) = Len(piece) /\ toClient # <<>>
    BY <2>5, <2>6, Sums
  <2>8. Len(printed') = Len(printed) + Len(piece) /\ Len(printed) + Len(toClient) = sent
    BY <1>0, <1>3, <2>3, <2>4, <2>5, <2>7, ConcatProperties DEF ClientRound,
                                        OneMessage
  <2>9. Len(printed') = sent'
    BY <1>0, <2>7, <2>8
  <2>10. /\ client' = "prompt" => server' \notin Ended /\ ~reset'
         /\ client' \in {"prompt", "closed"}
    <3>1. /\ client' = IF Len(piece) > 1 THEN "prompt" ELSE "closed"
          /\ reset' = (reset \/ (Len(piece) <= 1 /\ toClient' # <<>>))
      BY <2>3 DEF ClientRound
    <3>2. ~reset'
      BY <2>1, <2>4, <3>1, Zenon
    <3>3. Len(piece) > 1 => server # "closed"
      BY <1>0, <1>3, <2>6, <2>7 DEF OneMessage
    <3>4. Len(piece) > 1 => server' \notin Ended
      BY <1>0, <1>3, <2>1, <3>3 DEF Ended
    <3> QED
      BY <3>1, <3>2, <3>4
  <2>11. server # "send"
    BY <1>0, <1>3, <2>7 DEF OneMessage
  <2> QED
    BY <1>0, <1>3, <2>1, <2>4, <2>9, <2>10, <2>11 DEF OneMessage, Ended
<1> QED
  BY <1>1, <1>2, <1>3, <1>4 DEF SessionInv, TypeOK

\* recv() takes the whole message, and nothing is under way to the client.
LEMMA ServerRecvOneMessage == SessionInv /\ OneMessage /\ ServerRecv => OneMessage'
<1> SUFFICES ASSUME SessionInv, OneMessage, ServerRecv PROVE OneMessage'
  OBVIOUS
<1>0. /\ server = "recv" /\ server' \in {"send", "error"}
      /\ UNCHANGED <<client, typed, eof, buffer, toClient, connected, reset, sent,
                     printed>>
  BY DEF ServerRecv
<1>1. client # "connect"
  BY <1>0 DEF OneMessage
<1>2. CASE split'
  BY <1>0, <1>1, <1>2 DEF OneMessage
<1>3. CASE ~split' /\ split
  BY <1>3 DEF ServerRecv
<1>4. CASE ~split' /\ ~split /\ client \in Ended
  BY <1>0, <1>4 DEF OneMessage, Ended
<1>5. CASE ~split' /\ ~split /\ client \notin Ended
  <2>1. client \in {"prompt", "send", "recv"} /\ ~reset
    BY <1>0, <1>1, <1>5 DEF OneMessage, SessionInv, TypeOK, Ended
  <2>2. PICK piece \in Pieces(toServer) :
          /\ echo' = piece
          /\ toServer' = Rest(toServer, piece)
          /\ split' = (split \/ toServer' # <<>>)
          /\ server' = "send"
    BY <1>5, <2>1 DEF ServerRecv
  <2>3. toServer' = <<>> /\ toServer \in Seq(Nat)
    BY <1>5, <2>2 DEF SessionInv, TypeOK
  <2>4. /\ piece \in Seq(Nat) /\ Len(piece) \in 1 .. BufferSize - 1
        /\ Len(toServer) = Len(piece) + Len(<<>>)
    BY <2>2, <2>3, PieceAndRest, Zenon
  <2>5. Len(<<>>) = 0 /\ Len(piece) > 0 /\ piece # <<>>
    BY <2>4, EmptySeq DEF SessionInv
  <2>6. Len(toServer) > 0
    BY <2>4, <2>5
  <2>7. Len(printed) + Len(toClient) # sent
    BY <1>0, <1>5, <2>6, Sums DEF Ended
  <2>8. toClient = <<>> /\ client = "recv"
    <3>1. toClient = <<>>
      BY <1>5, <2>1, <2>7 DEF OneMessage
    <3>2. Len(printed) # sent
      BY <2>7, <3>1, EmptySeq, Sums
    <3> QED
      BY <1>5, <2>1, <3>1, <3>2 DEF OneMessage
  <2> QED
    BY <1>0, <1>5, <2>1, <2>2, <2>3, <2>5, <2>8 DEF OneMessage, Ended
<1> QED
  BY <1>2, <1>3, <1>4, <1>5 DEF SessionInv, TypeOK

\* The echo is all that is under way, and the last one is a byte long.
LEMMA ServerSendOneMessage == SessionInv /\ OneMessage /\ ServerSend => OneMessage'
<1> SUFFICES ASSUME SessionInv, OneMessage, ServerSend PROVE OneMessage'
  OBVIOUS
<1>0. /\ server = "send" /\ server' \in {"recv", "closed", "error"}
      /\ UNCHANGED <<client, typed, eof, buffer, echo, toServer, connected, sent,
                     printed, split>>
  BY DEF ServerSend
<1>1. client # "connect"
  BY <1>0 DEF OneMessage
<1>2. CASE split
  BY <1>0, <1>1, <1>2 DEF OneMessage
<1>3. CASE ~split /\ client \in Ended
  BY <1>0, <1>3 DEF OneMessage, Ended
<1>4. CASE ~split /\ client \notin Ended
  <2>1. /\ client \in {"prompt", "send", "recv"} /\ ~reset
        /\ echo # <<>> /\ toServer = <<>> /\ toClient = <<>>
    BY <1>0, <1>1, <1>4 DEF OneMessage, SessionInv, TypeOK, Ended
  <2>2. /\ server' = IF Len(echo) > 1 THEN "recv" ELSE "closed"
        /\ toClient' = toClient \o echo
        /\ ~reset'
    BY <1>4, <2>1 DEF ServerSend
  <2>3. toClient' = echo
    BY <2>1, <2>2, ConcatEmptySeq DEF SessionInv, TypeOK
  <2>4. Len(echo) \in Nat /\ Len(echo) > 0 /\ sent = Len(printed) + Len(echo)
    <3>1. Len(toClient) = 0 /\ Len(toServer) = 0 /\ held = Len(echo)
      BY <1>0, <2>1, EmptySeq DEF held
    <3>2. Len(echo) \in Nat /\ Len(echo) # 0
      BY <2>1, Sums
    <3>3. sent = Len(printed) + Len(toClient) + held + Len(toServer) /\ Len(printed) \in Nat
      BY <1>0, <1>4, Sums DEF Ended
    <3> QED
      BY <3>1, <3>2, <3>3
  <2>5. client = "recv"
    <3>1. Len(printed) # sent
      BY <2>4, Sums
    <3> QED
      BY <1>4, <2>1, <3>1 DEF OneMessage
  <2>6. server' = "closed" => Len(toClient') = 1
    <3>1. Len(echo) > 1 \/ Len(echo) = 1
      <4>1. \A n \in Nat : n > 0 => n > 1 \/ n = 1
        OBVIOUS
      <4> QED
        BY <2>4, <4>1, Zenon
    <3>2. Len(echo) > 1 => server' # "closed"
      BY <2>2
    <3> QED
      BY <2>3, <3>1, <3>2, Zenon
  <2>7. Len(printed') + Len(toClient') = sent'
    BY <1>0, <2>3, <2>4
  <2>8. server' \in {"recv", "closed"}
    BY <2>2
  <2> QED
    <3>1. client' = "recv" /\ ~reset'
      BY <1>0, <2>2, <2>5
    <3>2. /\ server' \notin {"listen", "error"} /\ server' # "send"
          /\ server' \notin {"listen", "accept", "aborted"}
      BY <2>8
    <3>3. /\ client' # "connect" /\ client' \notin {"prompt", "send"}
          /\ client' \notin {"prompt", "send", "closed"}
      BY <3>1
    <3> QED
      BY <2>6, <2>7, <3>1, <3>2, <3>3, Zenon DEF OneMessage
<1> QED
  BY <1>2, <1>3, <1>4 DEF SessionInv, TypeOK

\* Messages that are not split go round one at a time: in every reachable state
\* the client is at its prompt, or has ended, with all it sent echoed.
THEOREM RoundTrip == Spec => []UnsplitRoundTrip
<1>1. SessionInv /\ OneMessage /\ [Next]_vars => OneMessage'
  <2> SUFFICES ASSUME SessionInv, OneMessage, UNCHANGED vars PROVE OneMessage'
    BY ConnectionOneMessage, PromptOneMessage, ClientSendOneMessage,
       ClientRecvOneMessage, ServerRecvOneMessage, ServerSendOneMessage
       DEF Next, Client, Server
  <2> QED
    BY DEF vars, wire, OneMessage
<1>2. SessionInv /\ OneMessage => UnsplitRoundTrip
  BY DEF SessionInv, OneMessage, UnsplitRoundTrip
<1> QED
  BY InitOneMessage, <1>1, <1>2, SessionInvariance, PTL DEF Spec

-----------------------------------------------------------------------------
(* The session is a queue: EchoSession implements EchoQueue.  In every state *)
(* the bytes printed and those still to be printed are consecutive, so each is known by  *)
(* its length, and a step need only be followed by what it does to lengths.  *)

Bytes(from, m) == [b \in 1 .. m |-> from + b]

\* Consecutive bytes are known by the first of them and their number.
LEMMA CountsIs ==
  ASSUME NEW s \in Seq(Nat), NEW from \in Nat, Counts(s, from)
  PROVE  s = Bytes(from, Len(s)) /\ Len(s) \in Nat
<1>1. Len(s) \in Nat /\ DOMAIN s = 1 .. Len(s) /\ s = [b \in 1 .. Len(s) |-> s[b]]
  BY LenProperties
<1>2. \A b \in 1 .. Len(s) : s[b] = from + b
  BY <1>1 DEF Counts
<1> QED
  BY <1>1, <1>2 DEF Bytes

\* A run of consecutive bytes as a sequence.
LEMMA BytesSeq ==
  ASSUME NEW from \in Nat, NEW m \in Nat
  PROVE  /\ Bytes(from, m) \in Seq(Nat) /\ Len(Bytes(from, m)) = m
         /\ Counts(Bytes(from, m), from)
<1>1. \A b \in 1 .. m : from + b \in Nat
  OBVIOUS
<1>2. Bytes(from, m) \in Seq(Nat) /\ Len(Bytes(from, m)) = m
  BY <1>1 DEF Bytes
<1> QED
  BY <1>2 DEF Bytes, Counts

\* Runs that follow each other are one run.
LEMMA BytesConcat ==
  ASSUME NEW from \in Nat, NEW m \in Nat, NEW k \in Nat
  PROVE  Bytes(from, m) \o Bytes(from + m, k) = Bytes(from, m + k)
<1>1. from + m \in Nat /\ m + k \in Nat
  OBVIOUS
<1>2. PICK s \in Seq(Nat) : s = Bytes(from, m) /\ Len(s) = m /\ Counts(s, from)
  BY BytesSeq
<1>3. PICK t \in Seq(Nat) : t = Bytes(from + m, k) /\ Len(t) = k /\ Counts(t, from + m)
  BY <1>1, BytesSeq
<1>4. Counts(t, from + Len(s))
  BY <1>2, <1>3
<1>5. s \o t \in Seq(Nat) /\ Len(s \o t) = m + k /\ Counts(s \o t, from)
  BY <1>2, <1>3, <1>4, CountsConcat
<1>6. s \o t = Bytes(from, m + k)
  BY <1>5, CountsIs
<1> QED
  BY <1>2, <1>3, <1>6

\* A part of a run is a run.
LEMMA PartOfBytes ==
  ASSUME NEW from \in Nat, NEW m \in Nat, NEW a \in 0 .. m, NEW c \in a .. m
  PROVE  SubSeq(Bytes(from, m), a + 1, c) = Bytes(from + a, c - a)
<1>1. PICK s \in Seq(Nat) : s = Bytes(from, m) /\ Len(s) = m
  BY BytesSeq
<1>2. \A b \in a + 1 .. c : s[b] = from + b /\ s[b] \in Nat
  BY <1>1 DEF Bytes
<1>3. /\ SubSeq(s, a + 1, c) \in Seq(Nat)
      /\ Len(SubSeq(s, a + 1, c)) = IF a + 1 <= c THEN c - (a + 1) + 1 ELSE 0
      /\ \A b \in 1 .. c - (a + 1) + 1 : SubSeq(s, a + 1, c)[b] = s[a + 1 + b - 1]
  BY <1>2, SubSeqProperties
<1>4. PICK part \in Seq(Nat) : part = SubSeq(s, a + 1, c)
  BY <1>3
<1>5. Len(part) = c - a
  BY <1>3, <1>4
<1>6. ASSUME NEW b \in 1 .. c - a PROVE part[b] = (from + a) + b
  <2>1. b \in 1 .. c - (a + 1) + 1 /\ a + 1 + b - 1 = a + b /\ a + b \in a + 1 .. c
    OBVIOUS
  <2>2. part[b] = s[a + b] /\ s[a + b] = from + (a + b)
    BY <1>2, <1>3, <1>4, <2>1
  <2> QED
    BY <2>2
<1>7. Counts(part, from + a)
  <2>1. DOMAIN part = 1 .. c - a
    BY <1>5, LenProperties
  <2> QED
    BY <1>6, <2>1 DEF Counts
<1>8. from + a \in Nat
  OBVIOUS
<1>9. part = Bytes(from + a, c - a)
  BY <1>5, <1>7, <1>8, CountsIs
<1> QED
  BY <1>1, <1>4, <1>9

halted == client \in Ended \/ server \in Ended

\* What is printed and what is unprinted, by their lengths.
QueueState ==
  /\ Len(printed) \in Nat /\ Len(unprinted) \in Nat /\ sent \in Nat
  /\ printed = Bytes(0, Len(printed))
  /\ unprinted = Bytes(Len(printed), Len(unprinted))
  /\ client \in Ended => Len(unprinted) = 0
  /\ client \notin Ended /\ server \in Ended => Len(unprinted) = Len(toClient)
  /\ ~halted => /\ sent = Len(printed) + Len(unprinted)
                /\ Len(unprinted) = Len(toClient) + held + Len(toServer)

\* The invariant of the session says just that.
LEMMA QueueKnown == SessionInv => QueueState
<1> SUFFICES ASSUME SessionInv PROVE QueueState
  OBVIOUS
<1>1. /\ \A s \in {buffer, echo, toServer, toClient, printed} :
           s \in Seq(Nat) /\ Len(s) \in Nat
      /\ held \in Nat /\ sent \in Nat
  BY Lengths DEF SessionInv
<1>2. printed = Bytes(0, Len(printed))
  <2>1. Counts(printed, 0)
    BY DEF SessionInv, BytesInOrder
  <2> QED
    BY <1>1, <2>1, CountsIs
<1>3. CASE client \in Ended
  <2>1. unprinted = <<>>
    BY <1>3 DEF unprinted
  <2>2. Len(<<>>) = 0 /\ <<>> \in Seq(Nat)
    BY EmptySeq
  <2>3. <<>> = Bytes(Len(printed), 0)
    BY <1>1, <2>2, CountsEmpty, CountsIs
  <2> QED
    BY <1>1, <1>2, <1>3, <2>1, <2>2, <2>3 DEF QueueState, halted
<1>4. CASE client \notin Ended /\ server \in Ended
  <2>1. unprinted = toClient /\ Counts(toClient, Len(printed))
    BY <1>4 DEF unprinted, SessionInv, BytesInOrder
  <2>2. unprinted = Bytes(Len(printed), Len(unprinted))
    BY <1>1, <2>1, CountsIs
  <2> QED
    BY <1>1, <1>2, <1>4, <2>1, <2>2 DEF QueueState, halted
<1>5. CASE client \notin Ended /\ server \notin Ended
  <2>1. PICK kept : kept = IF server = "send" THEN echo ELSE <<>>
    OBVIOUS
  <2>2. /\ kept \in Seq(Nat) /\ Len(kept) = held
        /\ Counts(kept, Len(printed) + Len(toClient))
    <3>1. server = "send" => Counts(echo, Len(printed) + Len(toClient))
      BY <1>5 DEF SessionInv, BytesInOrder
    <3>2. <<>> \in Seq(Nat) /\ Len(<<>>) = 0
      BY EmptySeq
    <3> QED
      BY <1>1, <2>1, <3>1, <3>2, CountsEmpty DEF held
  <2>3. /\ Counts(toClient, Len(printed))
        /\ Counts(toServer, Len(printed) + Len(toClient) + held)
        /\ sent = Len(printed) + Len(toClient) + held + Len(toServer)
    BY <1>5 DEF SessionInv, BytesInOrder
  <2>4. PICK front : front = toClient \o kept
    OBVIOUS
  <2>5. /\ front \in Seq(Nat) /\ Len(front) = Len(toClient) + held
        /\ Counts(front, Len(printed))
    BY <1>1, <2>2, <2>3, <2>4, CountsConcat
  <2>6. Counts(toServer, Len(printed) + Len(front))
    <3>1. Len(printed) + Len(toClient) + held = Len(printed) + Len(front)
      BY <1>1, <2>5
    <3> QED
      BY <2>3, <3>1
  <2>7. unprinted = front \o toServer
    BY <1>5, <2>1, <2>4 DEF unprinted
  <2>8. /\ unprinted \in Seq(Nat) /\ Len(unprinted) = Len(front) + Len(toServer)
        /\ Counts(unprinted, Len(printed))
    BY <1>1, <2>5, <2>6, <2>7, CountsConcat
  <2>9. unprinted = Bytes(Len(printed), Len(unprinted)) /\ Len(unprinted) \in Nat
    BY <1>1, <2>8, CountsIs
  <2> QED
    BY <1>1, <1>2, <1>5, <2>3, <2>5, <2>8, <2>9 DEF QueueState, halted
<1> QED
  BY <1>3, <1>4, <1>5

\* A step that changes no length changes nothing.
LEMMA StutterByLengths ==
  ASSUME QueueState, QueueState', sent' = sent, halted' = halted,
         Len(printed') = Len(printed), Len(unprinted') = Len(unprinted)
  PROVE  UNCHANGED Queue!vars
<1>1. printed' = printed /\ unprinted' = unprinted
  BY DEF QueueState, Bytes
<1> QED
  BY <1>1 DEF Queue!vars, halted

\* A step that sends.
LEMMA SendByLengths ==
  ASSUME QueueState, QueueState', NEW k \in 1 .. BufferSize - 1, sent' = sent + k,
         halted' = halted, Len(printed') = Len(printed),
         Len(unprinted') = IF halted THEN Len(unprinted) ELSE Len(unprinted) + k
  PROVE  Queue!Send
<1>1. printed' = printed
  BY DEF QueueState, Bytes
<1>2. unprinted' = IF halted THEN unprinted ELSE unprinted \o [b \in 1 .. k |-> sent + b]
  <2>1. CASE halted
    BY <2>1 DEF QueueState, Bytes
  <2>2. CASE ~halted
    <3>1. PICK m, p \in Nat : m = Len(unprinted) /\ p = Len(printed)
      BY DEF QueueState
    <3>2. /\ unprinted = Bytes(p, m) /\ sent = p + m
          /\ unprinted' = Bytes(p, m + k)
      BY <2>2, <3>1 DEF QueueState
    <3>3. Bytes(p, m) \o Bytes(p + m, k) = Bytes(p, m + k)
      <4>1. k \in Nat
        OBVIOUS
      <4> QED
        BY <4>1, BytesConcat
    <3>4. Bytes(p + m, k) = [b \in 1 .. k |-> sent + b]
      BY <3>2 DEF Bytes
    <3> QED
      BY <2>2, <3>2, <3>3, <3>4
  <2> QED
    BY <2>1, <2>2
<1> QED
  BY <1>1, <1>2 DEF Queue!Send, halted

\* A step that prints.
LEMMA ShowByLengths ==
  ASSUME QueueState, QueueState', NEW k \in 1 .. BufferSize - 1, sent' = sent,
         halted' = halted, Len(printed') = Len(printed) + k,
         Len(unprinted) = k + Len(unprinted')
  PROVE  Queue!Show
<1>1. PICK m, p \in Nat : m = Len(unprinted) /\ p = Len(printed)
  BY DEF QueueState
<1>2. /\ unprinted = Bytes(p, m) /\ printed = Bytes(0, p)
      /\ unprinted' = Bytes(p + k, m - k) /\ printed' = Bytes(0, p + k)
      /\ k <= m
  <2>1. Len(unprinted') = m - k /\ k <= m
    BY <1>1 DEF QueueState
  <2> QED
    BY <1>1, <2>1 DEF QueueState
<1>3. SubSeq(unprinted, 1, k) = Bytes(p, k)
  <2>1. 0 \in 0 .. m /\ k \in 0 .. m /\ 0 + 1 = 1 /\ p + 0 = p /\ k - 0 = k
    BY <1>2
  <2>2. SubSeq(Bytes(p, m), 0 + 1, k) = Bytes(p + 0, k - 0)
    BY <2>1, PartOfBytes
  <2> QED
    BY <1>2, <2>1, <2>2
<1>4. SubSeq(unprinted, k + 1, Len(unprinted)) = unprinted'
  <2>1. k \in 0 .. m /\ m \in k .. m
    BY <1>2
  <2>2. SubSeq(Bytes(p, m), k + 1, m) = Bytes(p + k, m - k)
    BY <2>1, PartOfBytes
  <2> QED
    BY <1>1, <1>2, <2>2
<1>5. printed' = printed \o SubSeq(unprinted, 1, k)
  <2>1. k \in Nat /\ 0 \in Nat /\ 0 + p = p
    OBVIOUS
  <2>2. Bytes(0, p) \o Bytes(0 + p, k) = Bytes(0, p + k)
    BY <2>1, BytesConcat
  <2> QED
    BY <1>2, <1>3, <2>1, <2>2
<1> QED
  BY <1>1, <1>2, <1>4, <1>5 DEF Queue!Show, halted

\* A step in which a program ends.
LEMMA StopByLengths ==
  ASSUME QueueState, QueueState', NEW k \in 0 .. 1, sent' = sent, halted',
         Len(printed') = Len(printed) + k, k + Len(unprinted') <= Len(unprinted)
  PROVE  Queue!Stop
<1>1. PICK m, p, c \in Nat : m = Len(unprinted) /\ p = Len(printed)
                             /\ c = k + Len(unprinted')
  BY DEF QueueState
<1>2. /\ unprinted = Bytes(p, m) /\ printed = Bytes(0, p)
      /\ unprinted' = Bytes(p + k, c - k) /\ printed' = Bytes(0, p + k)
      /\ k <= c /\ c <= m
  <2>1. Len(unprinted') = c - k /\ k <= c
    BY <1>1 DEF QueueState
  <2> QED
    BY <1>1, <2>1 DEF QueueState
<1>3. SubSeq(unprinted, 1, k) = Bytes(p, k)
  <2>1. 0 \in 0 .. m /\ k \in 0 .. m /\ 0 + 1 = 1 /\ p + 0 = p /\ k - 0 = k
    BY <1>2
  <2>2. SubSeq(Bytes(p, m), 0 + 1, k) = Bytes(p + 0, k - 0)
    BY <2>1, PartOfBytes
  <2> QED
    BY <1>2, <2>1, <2>2
<1>4. SubSeq(unprinted, k + 1, c) = unprinted'
  <2>1. k \in 0 .. m /\ c \in k .. m
    BY <1>2
  <2>2. SubSeq(Bytes(p, m), k + 1, c) = Bytes(p + k, c - k)
    BY <2>1, PartOfBytes
  <2> QED
    BY <1>1, <1>2, <2>2
<1>5. printed' = printed \o SubSeq(unprinted, 1, k)
  <2>1. k \in Nat /\ 0 \in Nat /\ 0 + p = p
    OBVIOUS
  <2>2. Bytes(0, p) \o Bytes(0 + p, k) = Bytes(0, p + k)
    BY <2>1, BytesConcat
  <2> QED
    BY <1>2, <1>3, <2>1, <2>2
<1>6. c \in 0 .. Len(unprinted)
  BY <1>1, <1>2
<1> QED
  BY <1>2, <1>4, <1>5, <1>6 DEF Queue!Stop, halted

\* A step that neither sends nor prints.
LEMMA QuietByLengths ==
  ASSUME QueueState, QueueState', sent' = sent, Len(printed') = Len(printed),
         halted => halted', halted' => Len(unprinted') <= Len(unprinted)
  PROVE  [Queue!Next]_(Queue!vars)
<1>1. CASE halted'
  <2>1. /\ 0 \in 0 .. 1 /\ Len(printed') = Len(printed) + 0
        /\ 0 + Len(unprinted') <= Len(unprinted)
    BY <1>1 DEF QueueState
  <2>2. Queue!Stop
    BY <1>1, <2>1, StopByLengths
  <2> QED
    BY <2>2 DEF Queue!Next
<1>2. CASE ~halted'
  <2>1. ~halted /\ halted' = halted /\ Len(unprinted') = Len(unprinted)
    BY <1>2 DEF QueueState, halted
  <2> QED
    BY <2>1, StutterByLengths
<1> QED
  BY <1>1, <1>2

\* The steps of the server, and those of the client that move no byte.
LEMMA QuietSteps ==
  ASSUME SessionInv, QueueState, QueueState',
         Listen \/ Connect \/ Accept \/ Prompt \/ ServerRecv \/ ServerSend
           \/ UNCHANGED vars
  PROVE  [Queue!Next]_(Queue!vars)
<1>1. /\ sent' = sent /\ printed' = printed
      /\ client \in Ended => client' \in Ended
      /\ server \in Ended => server' \in Ended /\ toClient' = toClient
  BY DEF Listen, Connect, Accept, Prompt, ServerRecv, ServerSend, vars, wire, Ended
<1>2. \A s \in {echo, toServer, toClient} : s \in Seq(Nat) /\ Len(s) \in Nat
  BY Lengths DEF SessionInv
<1>3. client' \notin Ended /\ server \notin Ended =>
        Len(toClient') <= Len(toClient) + held
  <2>1. ASSUME client' \notin Ended, server \notin Ended
        PROVE  toClient' = toClient \/ (server = "send" /\ toClient' = toClient \o echo)
    BY <2>1 DEF Listen, Connect, Accept, Prompt, ServerRecv, ServerSend, vars, wire
  <2>2. Len(toClient \o echo) = Len(toClient) + Len(echo)
    BY <1>2, ConcatProperties
  <2> QED
    BY <1>2, <2>1, <2>2 DEF held
<1>4. halted => halted'
  BY <1>1 DEF halted
<1>5. halted' => Len(unprinted') <= Len(unprinted)
  <2>1. CASE client' \in Ended
    BY <2>1 DEF QueueState
  <2>2. CASE client' \notin Ended /\ server' \in Ended
    <3>1. client \notin Ended /\ Len(unprinted') = Len(toClient')
      BY <1>1, <2>2 DEF QueueState
    <3>2. CASE server \in Ended
      BY <1>1, <3>1, <3>2 DEF QueueState
    <3>3. CASE server \notin Ended
      <4>1. Len(unprinted) = Len(toClient) + held + Len(toServer)
        BY <3>1, <3>3 DEF QueueState, halted
      <4>2. held \in Nat /\ Len(toClient') <= Len(toClient) + held
        BY <1>2, <1>3, <2>2, <3>3 DEF held
      <4>3. Len(toClient') \in Nat
        BY <3>1 DEF QueueState
      <4> QED
        BY <1>2, <3>1, <4>1, <4>2, <4>3
    <3> QED
      BY <3>2, <3>3
  <2> QED
    BY <2>1, <2>2 DEF halted
<1> QED
  BY <1>1, <1>4, <1>5, QuietByLengths

\* send() of the client puts the buffer behind what is in the queue.
LEMMA ClientSendIs ==
  ASSUME SessionInv, QueueState, QueueState', ClientSend
  PROVE  [Queue!Next]_(Queue!vars)
<1>1. /\ client = "send" /\ UNCHANGED <<server, toClient, printed>>
      /\ client' \in {"recv", "error"}
  BY DEF ClientSend
<1>2. Len(buffer) \in Nat /\ BufferSize \in Nat /\ Len(buffer) < BufferSize
  BY Lengths DEF SessionInv, TypeOK
<1>3. CASE client' = "error"
  <2>1. sent' = sent /\ halted' /\ Len(unprinted') = 0 /\ Len(unprinted) \in Nat
    BY <1>3 DEF ClientSend, QueueState, halted, Ended
  <2> QED
    BY <1>1, <2>1, QuietByLengths
<1>4. CASE client' = "recv"
  <2>1. sent' = sent + Len(buffer) /\ halted' = halted
        /\ client \notin Ended /\ client' \notin Ended
    BY <1>1, <1>4 DEF ClientSend, halted, Ended
  <2>2. Len(unprinted') = IF halted THEN Len(unprinted) ELSE Len(unprinted) + Len(buffer)
    BY <1>1, <1>2, <2>1 DEF QueueState, halted
  <2>3. CASE Len(buffer) = 0
    <3>1. sent' = sent /\ Len(unprinted') = Len(unprinted)
      BY <2>1, <2>2, <2>3 DEF QueueState
    <3> QED
      BY <1>1, <2>1, <3>1, StutterByLengths
  <2>4. CASE Len(buffer) # 0
    <3>1. Len(buffer) \in 1 .. BufferSize - 1
      BY <1>2, <2>4
    <3>2. Queue!Send
      BY <1>1, <2>1, <2>2, <3>1, SendByLengths
    <3> QED
      BY <3>2 DEF Queue!Next
  <2> QED
    BY <2>3, <2>4
<1> QED
  BY <1>1, <1>3, <1>4

\* recv() of the client prints from the head of the queue.
LEMMA ClientRecvIs ==
  ASSUME SessionInv, QueueState, QueueState', ClientRecv
  PROVE  [Queue!Next]_(Queue!vars)
<1>1. client = "recv" /\ UNCHANGED <<server, sent>> /\ client \notin Ended
  BY DEF ClientRecv, Ended
<1>2. toClient \in Seq(Nat) /\ printed \in Seq(Nat)
  BY Lengths DEF SessionInv
<1>3. ASSUME NEW piece \in Pieces(toClient), toClient' = Rest(toClient, piece),
             ClientRound(piece)
      PROVE  [Queue!Next]_(Queue!vars)
  <2>1. PICK k \in 1 .. BufferSize - 1 :
          k = Len(piece) /\ piece \in Seq(Nat) /\ Len(toClient) = k + Len(toClient')
          /\ toClient' \in Seq(Nat)
    BY <1>2, <1>3, PieceAndRest
  <2>2. Len(printed') = Len(printed) + k
    BY <1>2, <1>3, <2>1, ConcatProperties DEF ClientRound
  <2>3. Len(toClient) \in Nat /\ Len(toClient') \in Nat /\ k \in Nat /\ k >= 1
    BY <1>2, <2>1, LenProperties
  <2>4. CASE k > 1
    <3>1. client' = "prompt" /\ client' \notin Ended /\ halted' = halted
      BY <1>1, <1>3, <2>1, <2>4 DEF ClientRound, Ended, halted
    <3>2. Len(unprinted) = k + Len(unprinted')
      <4>1. CASE server \in Ended
        BY <1>1, <2>1, <3>1, <4>1 DEF QueueState
      <4>2. CASE server \notin Ended
        BY <1>1, <2>2, <3>1, <4>2 DEF QueueState, halted
      <4> QED
        BY <4>1, <4>2
    <3>3. Queue!Show
      BY <1>1, <2>2, <3>1, <3>2, ShowByLengths
    <3> QED
      BY <3>3 DEF Queue!Next
  <2>5. CASE ~(k > 1)
    <3>1. k = 1 /\ client' \in Ended /\ halted' /\ Len(unprinted') = 0
      BY <1>3, <2>1, <2>3, <2>5 DEF ClientRound, Ended, halted, QueueState
    <3>2. Len(unprinted) >= 1
      <4>1. CASE server \in Ended
        BY <1>1, <2>1, <2>3, <4>1 DEF QueueState
      <4>2. CASE server \notin Ended
        <5>1. held \in Nat /\ Len(toServer) \in Nat
          BY Lengths DEF SessionInv
        <5> QED
          BY <1>1, <2>1, <2>3, <4>2, <5>1 DEF QueueState, halted
      <4> QED
        BY <4>1, <4>2
    <3>3. k \in 0 .. 1 /\ k + Len(unprinted') <= Len(unprinted)
      BY <3>1, <3>2 DEF QueueState
    <3>4. Queue!Stop
      BY <1>1, <2>2, <3>1, <3>3, StopByLengths
    <3> QED
      BY <3>4 DEF Queue!Next
  <2> QED
    BY <2>4, <2>5
<1>4. ASSUME printed' = printed, client' \in Ended
      PROVE  [Queue!Next]_(Queue!vars)
  <2>1. halted' /\ Len(unprinted') = 0 /\ Len(unprinted) \in Nat
    BY <1>4 DEF QueueState, halted
  <2> QED
    BY <1>1, <1>4, <2>1, QuietByLengths
<1>5. CASE ClientRound(<<>>)
  <2>1. printed' = printed /\ client' = "closed"
    BY <1>2, <1>5, ConcatEmptySeq, EmptySeq DEF ClientRound
  <2> QED
    BY <1>4, <2>1 DEF Ended
<1>6. CASE client' = "error" /\ printed' = printed
  BY <1>4, <1>6 DEF Ended
<1> QED
  BY <1>3, <1>5, <1>6 DEF ClientRecv

\* Two programs, two buffers and a connection in both directions implement one
\* queue of bytes, for any input and any size of the buffers.
THEOREM SessionImplementsQueue == Spec => ImplementsEchoQueue
<1>1. Init => Queue!Init
  <2> SUFFICES ASSUME Init PROVE Queue!Init
    OBVIOUS
  <2>1. /\ client = "connect" /\ server = "listen" /\ toClient = <<>>
        /\ toServer = <<>> /\ sent = 0 /\ printed = <<>>
    BY DEF Init
  <2>2. unprinted = <<>> \o <<>> \o <<>>
    BY <2>1 DEF unprinted, Ended
  <2>3. <<>> \o <<>> \o <<>> = <<>>
    BY ConcatEmptySeq, EmptySeq
  <2> QED
    BY <2>1, <2>2, <2>3 DEF Queue!Init, Ended
<1>2. SessionInv /\ QueueState /\ QueueState' /\ [Next]_vars
        => [Queue!Next]_(Queue!vars)
  BY QuietSteps, ClientSendIs, ClientRecvIs DEF Next, Client, Server
<1>3. SessionInv => QueueState
  BY QueueKnown
<1> QED
  BY <1>1, <1>2, <1>3, SessionInvariance, PTL
     DEF Spec, ImplementsEchoQueue, Queue!Spec

-----------------------------------------------------------------------------
(* Datagrams, time-outs and SIGIO.                                         *)

HIDE SizesOfLines

\* A client that is not done has an alarm, past or to come, for every datagram
\* it has sent; one that was interrupted has none to come.
AlarmsCounted ==
  \A c \in Clients :
    /\ clientAt[c] # "done" /\ timer[c] => sends[c] = tries[c] + 1
    /\ clientAt[c] # "done" /\ ~timer[c] => sends[c] = tries[c]
    /\ clientAt[c] = "start" => sends[c] = 0
    /\ clientAt[c] = "interrupted" => ~timer[c]
    /\ sends[c] <= MaxTries
    /\ clientAt[c] = "gaveUp" => sends[c] = MaxTries /\ tries[c] = MaxTries

\* Wherever a word is, it is the word of the client named beside it.
WordsMatch ==
  /\ \A d \in network : d.word = d.client
  /\ \A k \in DOMAIN queue : queue[k].word = queue[k].client
  /\ \A p \in echoBuffer : p.word = p.client
  /\ \A c \in Clients : inbox[c] \subseteq {c}

\* Nothing counts as arrived before SIGIO is asked for.
SignalsKept ==
  /\ NoDatagramStranded
  /\ serverAt \in {"start", "bound"} => ~arrived

UdpInv == UdpTypeOK /\ AlarmsCounted /\ WordsMatch /\ OwnWord /\ SignalsKept

USE EchoBounds

-----------------------------------------------------------------------------
\* The initial state satisfies the invariant.
LEMMA UdpInitInv == UdpInit => UdpInv
<1> SUFFICES ASSUME UdpInit PROVE UdpInv
  OBVIOUS
<1>1. UdpTypeOK
  <2>1. queue \in Seq(Packets) /\ Len(queue) <= QueueMax
    BY DEF UdpInit
  <2> QED
    BY <2>1 DEF UdpInit, UdpTypeOK
<1>2. AlarmsCounted
  <2> SUFFICES ASSUME NEW c \in Clients
               PROVE  AlarmsCounted!(c)
    BY DEF AlarmsCounted
  <2>1. clientAt[c] = "start" /\ tries[c] = 0 /\ sends[c] = 0
    BY DEF UdpInit
  <2>2. timer[c] = FALSE
    BY Zenon DEF UdpInit
  <2> QED
    BY <2>1, <2>2
<1>3. WordsMatch
  <2>1. DOMAIN queue = {}
    BY DEF UdpInit
  <2>2. network = {} /\ echoBuffer = {} /\ inbox = [c \in Clients |-> {}]
    BY DEF UdpInit
  <2> QED
    BY <2>1, <2>2 DEF WordsMatch
<1>4. OwnWord /\ SignalsKept
  BY DEF UdpInit, OwnWord, SignalsKept, NoDatagramStranded
<1> QED
  BY <1>1, <1>2, <1>3, <1>4 DEF UdpInv

\* Delivering a datagram preserves it.
LEMMA NetworkInv == UdpInv /\ Network => UdpInv'
<1> SUFFICES ASSUME UdpInv, Network PROVE UdpInv'
  OBVIOUS
<1> USE DEF UdpInv
<1>1. CASE ArriveAtServer
  <2>1. PICK d \in network :
          /\ d.to = "server"
          /\ queue' = Append(queue, [client |-> d.client, word |-> d.word])
    BY <1>1 DEF ArriveAtServer
  <2> DEFINE p == [client |-> d.client, word |-> d.word]
  <2>2. d \in Datagrams /\ p \in Packets /\ p.word = p.client
    BY DEF UdpTypeOK, Datagrams, Packets, WordsMatch
  <2>3. /\ queue \in Seq(Packets) /\ queue' = Append(queue, p)
        /\ Len(queue) < QueueMax /\ Len(queue) \in Nat
    BY <1>1, <2>1, LenProperties DEF ArriveAtServer, UdpTypeOK
  <2> HIDE DEF p
  <2>4. /\ queue' \in Seq(Packets)
        /\ Len(queue') = Len(queue) + 1
        /\ \A k \in DOMAIN queue' : queue'[k] = p \/ (k \in DOMAIN queue /\ queue'[k] = queue[k])
    BY <2>2, <2>3
  <2>5. UdpTypeOK'
    BY <1>1, <2>3, <2>4 DEF ArriveAtServer, UdpTypeOK, clientVars
  <2>6. WordsMatch'
    BY <1>1, <2>2, <2>4 DEF ArriveAtServer, WordsMatch, clientVars
  <2>7. AlarmsCounted' /\ OwnWord' /\ SignalsKept'
    BY <1>1 DEF ArriveAtServer, AlarmsCounted, OwnWord, SignalsKept,
                NoDatagramStranded, clientVars, UdpTypeOK
  <2> QED
    BY <2>5, <2>6, <2>7
<1>2. CASE ArriveAtClient
  <2>1. PICK d \in network :
          inbox' = [inbox EXCEPT ![d.client] = @ \union {d.word}]
    BY <1>2 DEF ArriveAtClient
  <2>2. d \in Datagrams /\ d.client \in Clients /\ d.word = d.client
    BY DEF UdpTypeOK, Datagrams, WordsMatch
  <2>3. UdpTypeOK'
    <3>1. inbox' \in [Clients -> SUBSET Clients]
      BY <2>1, <2>2 DEF UdpTypeOK
    <3> QED
      BY <1>2, <3>1 DEF ArriveAtClient, UdpTypeOK, serverVars
  <2>4. WordsMatch'
    BY <1>2, <2>1, <2>2 DEF ArriveAtClient, WordsMatch, serverVars, UdpTypeOK
  <2>5. AlarmsCounted' /\ OwnWord'
    BY <1>2 DEF ArriveAtClient, AlarmsCounted, OwnWord
  <2>6. SignalsKept'
    BY <1>2 DEF ArriveAtClient, SignalsKept, NoDatagramStranded, serverVars
  <2> QED
    BY <2>3, <2>4, <2>5, <2>6
<1> QED
  BY <1>1, <1>2 DEF Network

\* So does a step of the server.
LEMMA ServerInv == UdpInv /\ UdpServer => UdpInv'
<1> SUFFICES ASSUME UdpInv, UdpServer PROVE UdpInv'
  OBVIOUS
<1> USE DEF UdpInv
<1>1. CASE Bind \/ AskForSignals \/ DeliverSigio \/ NothingLeft
  <2> USE <1>1 DEF Bind, AskForSignals, DeliverSigio, NothingLeft, clientVars
  <2>1. UdpTypeOK'
    BY DEF UdpTypeOK
  <2>2. AlarmsCounted' /\ WordsMatch' /\ OwnWord'
    BY DEF AlarmsCounted, WordsMatch, OwnWord
  <2>3. SignalsKept'
    BY DEF SignalsKept, NoDatagramStranded
  <2> QED
    BY <2>1, <2>2, <2>3
<1>2. CASE Recvfrom
  <2>1. queue \in Seq(Packets) /\ queue # <<>> /\ Len(queue) \in Nat
    BY <1>2, LenProperties DEF Recvfrom, UdpTypeOK
  <2>2. /\ Head(queue) \in Packets /\ Head(queue).word = Head(queue).client
        /\ queue' \in Seq(Packets)
        /\ Len(queue') = Len(queue) - 1
        /\ \A k \in DOMAIN queue' : queue'[k].word = queue'[k].client
    BY <1>2, <2>1, HeadTailProperties DEF Recvfrom, WordsMatch
  <2>3. UdpTypeOK'
    BY <1>2, <2>1, <2>2 DEF Recvfrom, UdpTypeOK, clientVars
  <2>4. WordsMatch'
    BY <1>2, <2>2 DEF Recvfrom, WordsMatch, clientVars
  <2>5. AlarmsCounted' /\ OwnWord' /\ SignalsKept'
    BY <1>2 DEF Recvfrom, AlarmsCounted, OwnWord, SignalsKept,
                NoDatagramStranded, clientVars
  <2> QED
    BY <2>3, <2>4, <2>5
<1>3. CASE Sendto
  <2>1. \A p \in echoBuffer : Reply(p) \in Datagrams /\ Reply(p).word = Reply(p).client
    BY DEF UdpTypeOK, WordsMatch, Reply, Packets, Datagrams
  <2>2. UdpTypeOK'
    BY <1>3, <2>1 DEF Sendto, UdpTypeOK, clientVars
  <2>3. WordsMatch'
    BY <1>3, <2>1 DEF Sendto, WordsMatch, clientVars
  <2>4. AlarmsCounted' /\ OwnWord' /\ SignalsKept'
    BY <1>3 DEF Sendto, AlarmsCounted, OwnWord, SignalsKept,
                NoDatagramStranded, clientVars
  <2> QED
    BY <2>2, <2>3, <2>4
<1> QED
  BY <1>1, <1>2, <1>3 DEF UdpServer

\* Sending the word, for the first time or again.
LEMMA TransmitInv ==
  ASSUME UdpInv, NEW c \in Clients, NEW from \in {"start", "interrupted"},
         Move(c, from, "call"), from = "interrupted" => tries[c] < MaxTries,
         Transmit(c)
  PROVE  UdpInv'
<1> USE DEF UdpInv, Move, Transmit
<1>1. Request(c) \in Datagrams /\ Request(c).word = Request(c).client
  BY DEF Request, Datagrams
<1>2. UdpTypeOK'
  BY <1>1 DEF UdpTypeOK, serverVars, Finished
<1>3. WordsMatch'
  BY <1>1 DEF WordsMatch, serverVars
<1>4. AlarmsCounted'
  BY DEF AlarmsCounted, UdpTypeOK
<1>5. OwnWord' /\ SignalsKept'
  BY DEF OwnWord, SignalsKept, NoDatagramStranded, serverVars
<1> QED
  BY <1>2, <1>3, <1>4, <1>5

\* And a step of a client.
LEMMA ClientInv ==
  ASSUME UdpInv, NEW c \in Clients, UdpClient(c)
  PROVE  UdpInv'
<1>1. CASE First(c) \/ Retry(c)
  BY <1>1, TransmitInv DEF First, Retry
<1>2. CASE Block(c)
  <2> USE <1>2 DEF UdpInv, Block, Move
  <2>1. UdpTypeOK'
    BY DEF UdpTypeOK, Finished, serverVars
  <2>2. AlarmsCounted'
    BY DEF AlarmsCounted, UdpTypeOK, Finished
  <2>3. WordsMatch' /\ OwnWord'
    BY DEF WordsMatch, OwnWord, UdpTypeOK, serverVars
  <2>4. SignalsKept'
    BY DEF SignalsKept, NoDatagramStranded, serverVars
  <2> QED
    BY <2>1, <2>2, <2>3, <2>4
<1>3. CASE Receive(c)
  <2> USE <1>3 DEF UdpInv, Receive, Move
  <2>1. UdpTypeOK'
    BY DEF UdpTypeOK, Finished, serverVars
  <2>2. AlarmsCounted'
    BY DEF AlarmsCounted, UdpTypeOK, Finished
  <2>3. WordsMatch' /\ OwnWord'
    BY DEF WordsMatch, OwnWord, UdpTypeOK, serverVars
  <2>4. SignalsKept'
    BY DEF SignalsKept, NoDatagramStranded, serverVars
  <2> QED
    BY <2>1, <2>2, <2>3, <2>4
<1>4. CASE Alarm(c)
  <2> USE <1>4 DEF UdpInv, Alarm, Move
  <2>1. UdpTypeOK'
    BY DEF UdpTypeOK, Finished, serverVars
  <2>2. AlarmsCounted'
    BY DEF AlarmsCounted, UdpTypeOK, Finished
  <2>3. WordsMatch' /\ OwnWord'
    BY DEF WordsMatch, OwnWord, UdpTypeOK, serverVars
  <2>4. SignalsKept'
    BY DEF SignalsKept, NoDatagramStranded, serverVars
  <2> QED
    BY <2>1, <2>2, <2>3, <2>4
<1>5. CASE GiveUp(c)
  <2> USE <1>5 DEF UdpInv, GiveUp, Move
  <2>1. UdpTypeOK'
    BY DEF UdpTypeOK, Finished, serverVars
  <2>2. AlarmsCounted'
    BY DEF AlarmsCounted, UdpTypeOK, Finished
  <2>3. WordsMatch' /\ OwnWord'
    BY DEF WordsMatch, OwnWord, UdpTypeOK, serverVars
  <2>4. SignalsKept'
    BY DEF SignalsKept, NoDatagramStranded, serverVars
  <2> QED
    BY <2>1, <2>2, <2>3, <2>4
<1>6. CASE Cancel(c)
  <2> USE <1>6 DEF UdpInv, Cancel, Move
  <2>1. UdpTypeOK'
    BY DEF UdpTypeOK, Finished, serverVars
  <2>2. AlarmsCounted'
    BY DEF AlarmsCounted, UdpTypeOK, Finished
  <2>3. WordsMatch' /\ OwnWord'
    BY DEF WordsMatch, OwnWord, UdpTypeOK, serverVars
  <2>4. SignalsKept'
    BY DEF SignalsKept, NoDatagramStranded, serverVars
  <2> QED
    BY <2>1, <2>2, <2>3, <2>4
<1> QED
  BY <1>1, <1>2, <1>3, <1>4, <1>5, <1>6 DEF UdpClient

\* The invariant holds in every reachable state.
THEOREM UdpInvariance == UdpSpec => []UdpInv
<1>1. UdpInv /\ [UdpNext]_udpVars => UdpInv'
  <2> SUFFICES ASSUME UdpInv, UNCHANGED udpVars PROVE UdpInv'
    BY NetworkInv, ServerInv, ClientInv DEF UdpNext
  <2> QED
    BY DEF udpVars, serverVars, clientVars, UdpInv, UdpTypeOK, AlarmsCounted,
           WordsMatch,
           OwnWord, SignalsKept, NoDatagramStranded
<1> QED
  BY UdpInitInv, <1>1, PTL DEF UdpSpec

\* A client prints its own word.
THEOREM WordsKept == UdpSpec => []OwnWord
  BY UdpInvariance, PTL DEF UdpInv

\* Nothing that came after SIGIO was asked for is left in the socket of an idle
\* server without a signal pending.
THEOREM NothingStranded == UdpSpec => []NoDatagramStranded
  BY UdpInvariance, PTL DEF UdpInv, SignalsKept

\* A client that gives up has sent its word MAXTRIES times, and none does so more
\* often.
THEOREM TriesCorrect == UdpSpec => []GivesUpAfterMaxTries
<1>1. UdpInv => GivesUpAfterMaxTries
  BY DEF UdpInv, AlarmsCounted, GivesUpAfterMaxTries
<1> QED
  BY <1>1, UdpInvariance, PTL
=============================================================================
