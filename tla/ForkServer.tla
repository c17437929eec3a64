----------------------------- MODULE ForkServer -----------------------------
(***************************************************************************)
(* TCPEchoServer-Fork.c and TCPEchoServer-Fork-SIGCHLD.c: the server forks *)
(* a child for every client and counts its children in childProcCount.     *)
(* One reaps the children that have ended after each fork(), the other in  *)
(* the handler of SIGCHLD, both as long as the count says there are any.   *)
(* Signals coalesce, and the handler may run between any two steps of the  *)
(* server, also between the load and the store of childProcCount++ (the    *)
(* Makefile compiles without -O: three instructions).                      *)
(***************************************************************************)
EXTENDS Integers, FiniteSets

CONSTANTS
  Connections,    \* bound: the clients; each connects once, and is served by
                  \* one child
  MaxPending      \* MAXPENDING: connections the kernel keeps for accept()

ASSUME ServerBounds == IsFiniteSet(Connections) /\ MaxPending \in Nat \ {0}

VARIABLES
  kind,           \* the server: "loop" (reaps after fork()) or "SIGCHLD"
  childProcCount,
  main_at,        \* "accept", "fork", "load" and "store" of childProcCount++,
                  \* or how the server ended: "noClient", "noFork", "noChild"
  clntSock,       \* the client accept() returned
  loaded,         \* the value of childProcCount that was loaded
  pending,        \* SIGCHLD is pending
  reaping,        \* the reaping loop runs, in main() after the count was
                  \* stored, or in ChildExitSignalHandler() while main() stands still
  child,          \* of each client: "away", "waiting" (for accept()),
                  \* "accepted", "serving", "zombie" or "reaped"
  torn            \* history: the handler counted a child between load and store

forkVars == <<kind, childProcCount, main_at, clntSock, loaded, pending, reaping,
              child, torn>>

InStage(s) == {c \in Connections : child[c] = s}
Unreaped == InStage("serving") \union InStage("zombie")
ServerEnded == main_at \in {"noClient", "noFork", "noChild"}

ForkTypeOK ==
  /\ kind \in {"loop", "SIGCHLD"}
  /\ childProcCount \in Nat /\ loaded \in Nat
  /\ main_at \in {"accept", "fork", "load", "store", "noClient", "noFork",
                  "noChild"}
  /\ clntSock \in Connections
  /\ pending \in BOOLEAN /\ reaping \in BOOLEAN /\ torn \in BOOLEAN
  /\ child \in [Connections -> {"away", "waiting", "accepted", "serving",
                            "zombie", "reaped"}]

-----------------------------------------------------------------------------
ForkInit ==
  /\ kind \in {"loop", "SIGCHLD"}
  /\ childProcCount = 0
  /\ main_at = "accept"
  /\ clntSock \in Connections           \* not yet assigned
  /\ loaded = 0
  /\ pending = FALSE /\ reaping = FALSE /\ torn = FALSE
  /\ child = [c \in Connections |-> "away"]

\* a client connects: the kernel queues it behind the listening socket
ConnectClient(c) ==
  /\ child[c] = "away"
  /\ ~ServerEnded
  /\ Cardinality(InStage("waiting")) < MaxPending
  /\ child' = [child EXCEPT ![c] = "waiting"]
  /\ UNCHANGED <<kind, childProcCount, main_at, clntSock, loaded, pending, reaping,
                 torn>>

Running(at) == main_at = at /\ ~reaping

\* accept() returns the next client
AcceptTCPConnection ==
  /\ Running("accept")
  /\ \E c \in InStage("waiting") :
       /\ clntSock' = c
       /\ child' = [child EXCEPT ![c] = "accepted"]
  /\ main_at' = "fork"
  /\ UNCHANGED <<kind, childProcCount, loaded, pending, reaping, torn>>

\* accept() may fail, which ends the server, but not because of a signal
\* (SA_RESTART)
AcceptFails ==
  /\ Running("accept")
  /\ main_at' = "noClient"
  /\ UNCHANGED <<kind, childProcCount, clntSock, loaded, pending, reaping, child,
                 torn>>

Fork ==
  /\ Running("fork")
  /\ child' = [child EXCEPT ![clntSock] = "serving"]
  /\ main_at' = "load"
  /\ UNCHANGED <<kind, childProcCount, clntSock, loaded, pending, reaping, torn>>

ForkFails ==
  /\ Running("fork")
  /\ main_at' = "noFork"
  /\ UNCHANGED <<kind, childProcCount, clntSock, loaded, pending, reaping, child,
                 torn>>

\* childProcCount++ is a load and a store
Load ==
  /\ Running("load")
  /\ loaded' = childProcCount
  /\ main_at' = "store"
  /\ UNCHANGED <<kind, childProcCount, clntSock, pending, reaping, child, torn>>

Store ==
  /\ Running("store")
  /\ childProcCount' = loaded + 1
  /\ main_at' = "accept"
  /\ reaping' = (kind = "loop")
  /\ UNCHANGED <<kind, clntSock, loaded, pending, child, torn>>

Main == AcceptTCPConnection \/ AcceptFails \/ Fork \/ ForkFails \/ Load \/ Store

\* HandleTCPClient() comes to the end of what the client sends, or recv() or
\* send() fails; exit() either way.  The kernel makes SIGCHLD pending, once
\* however many children end before it is delivered.
ChildExits(c) ==
  /\ child[c] = "serving"
  /\ child' = [child EXCEPT ![c] = "zombie"]
  /\ pending' = (kind = "SIGCHLD" /\ ~ServerEnded)
  /\ UNCHANGED <<kind, childProcCount, main_at, clntSock, loaded, reaping, torn>>

-----------------------------------------------------------------------------
\* delivery; sa_mask holds back every signal while the handler runs
DeliverSigchld ==
  /\ pending /\ ~reaping /\ ~ServerEnded
  /\ pending' = FALSE
  /\ reaping' = TRUE
  /\ UNCHANGED <<kind, childProcCount, main_at, clntSock, loaded, child, torn>>

\* Faulty variant: the loop is an if.
ReapOne ==
  /\ reaping /\ childProcCount > 0
  /\ \E c \in InStage("zombie") : child' = [child EXCEPT ![c] = "reaped"]
  /\ childProcCount' = childProcCount - 1
  /\ torn' = (torn \/ main_at = "store")
  /\ reaping' = FALSE
  /\ UNCHANGED <<kind, main_at, clntSock, loaded, pending>>

\* Faulty variant: the child is not counted down.
ReapUncounted ==
  /\ reaping /\ childProcCount > 0
  /\ \E c \in InStage("zombie") : child' = [child EXCEPT ![c] = "reaped"]
  /\ UNCHANGED <<kind, childProcCount, main_at, clntSock, loaded, pending, reaping,
                 torn>>

\* one turn of the loop: waitpid() of any child, without waiting
Reap ==
  /\ reaping /\ childProcCount > 0
  /\ \E c \in InStage("zombie") : child' = [child EXCEPT ![c] = "reaped"]
  /\ childProcCount' = childProcCount - 1
  /\ torn' = (torn \/ main_at = "store")
  /\ UNCHANGED <<kind, main_at, clntSock, loaded, pending, reaping>>

\* the count is 0, or no child has ended (waitpid() returns 0)
Return ==
  /\ reaping
  /\ childProcCount = 0 \/ (InStage("zombie") = {} /\ Unreaped # {})
  /\ reaping' = FALSE
  /\ UNCHANGED <<kind, childProcCount, main_at, clntSock, loaded, pending, child,
                 torn>>

\* Faulty variant: waitpid() <= 0 is taken for an error.
WaitFailsOnNone ==
  /\ reaping /\ childProcCount > 0 /\ InStage("zombie") = {}
  /\ main_at' = "noChild"
  /\ reaping' = FALSE
  /\ UNCHANGED <<kind, childProcCount, clntSock, loaded, pending, child, torn>>

\* waitpid() fails: there is no child at all, although the count says so
WaitFails ==
  /\ reaping /\ childProcCount > 0 /\ Unreaped = {}
  /\ main_at' = "noChild"
  /\ reaping' = FALSE
  /\ UNCHANGED <<kind, childProcCount, clntSock, loaded, pending, child, torn>>

ReapingLoop == Reap \/ Return \/ WaitFails

ForkNext ==
  \/ Main \/ DeliverSigchld \/ ReapingLoop
  \/ \E c \in Connections : ConnectClient(c) \/ ChildExits(c)

ForkSpec == ForkInit /\ [][ForkNext]_forkVars

-----------------------------------------------------------------------------
\* The server counts the child it has just forked only after childProcCount++.
Uncounted == IF main_at \in {"load", "store"} THEN 1 ELSE 0

\* Unless the handler has torn the increment, the count is exactly the number of
\* children not yet reaped, those included that ended before they were counted.
CountIsUnreaped ==
  ~torn /\ ~ServerEnded => childProcCount + Uncounted = Cardinality(Unreaped)

\* The server with the handler does not run forever: a torn increment leaves the
\* count too high, and the handler then waits for a child that does not exist and
\* ends the server.  Nothing else makes waitpid() fail, in either server.
DiesOnlyAfterTear == main_at = "noChild" => torn

\* Signals that coalesce lose nothing: when the server waits in accept() and no
\* signal is under way, at most one child has ended and not been reaped.  (It
\* ended before it was counted, with the count at 0, and stays until another
\* child ends.)
AtMostOneZombieLeft ==
  kind = "SIGCHLD" /\ Running("accept") /\ ~pending => Cardinality(InStage("zombie")) <= 1
=============================================================================
