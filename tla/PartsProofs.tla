----------------------------- MODULE PartsProofs -----------------------------
(* Theorems about three parts. Senders, for every set of connections and of    *)
(* addresses: the safety of the senders map, from an inductive invariant.      *)
(* Punch, for any number of peers, attempts and losses: the pairing of the     *)
(* hole punching example. Locks, for any number of threads: the sections keep  *)
(* to one order of the locks, and so nobody ever waits in a circle.            *)
EXTENDS Senders, Punch, Locks, SequenceTheorems, TLAPS

\* A leaf that needs no arithmetic cites Zenon. The others are given to SMT, with
\* time for the longer ones, and then to Zenon.
USE SMTT(30), Zenon

-----------------------------------------------------------------------------
(* Senders: the parts of the invariant, one lemma each, one step for each      *)
(* action.                                                                     *)

USE SendersAssumption

\* A node without connections satisfies the invariant.
LEMMA InitInv == Init => IInv
<1> SUFFICES ASSUME Init PROVE IInv
    BY Zenon
<1>1. TypeOK
      BY Zenon DEF Init, TypeOK, Stage, SetupStage, WriterStage
<1>2. StagesAgree /\ ClaimsFinalized /\ PublishedStays
      BY Zenon DEF Init, StagesAgree, ClaimsFinalized, PublishedStays
<1>3. AddressOwned /\ EntriesOwned
      BY Zenon DEF Init, AddressOwned, EntriesOwned
<1> QED
      BY <1>1, <1>2, <1>3, Zenon DEF IInv

\* Every step keeps the variables well-typed.
LEMMA NextType ==
    ASSUME IInv, [Next]_vars
    PROVE  TypeOK'
<1> USE DEF To, Stage, SetupStage, WriterStage, setupVars, writerVars, closeVars
<1>0. TypeOK
      BY Zenon DEF IInv
<1>1. ASSUME NEW c \in Conn, Trigger(c)
      PROVE  TypeOK'
      BY <1>0, <1>1, Zenon DEF Trigger, Occupied, TypeOK
<1>2. ASSUME NEW c \in Conn, HandleNewConnection(c)
      PROVE  TypeOK'
      BY <1>0, <1>2, ZenonT(30) DEF HandleNewConnection, TypeOK
<1>3. ASSUME NEW c \in Conn, AdoptWriter(c)
      PROVE  TypeOK'
      BY <1>0, <1>3, Zenon DEF AdoptWriter, TypeOK
<1>4. ASSUME NEW c \in Conn, ReturnConn(c)
      PROVE  TypeOK'
      BY <1>0, <1>4, Zenon DEF ReturnConn, DropConnection, TypeOK
<1>5. ASSUME NEW c \in Conn, Add(c)
      PROVE  TypeOK'
      BY <1>0, <1>5 DEF Add, DropConnection, TypeOK
<1>6. ASSUME NEW c \in Conn, CancelConnect(c)
      PROVE  TypeOK'
      BY <1>0, <1>6, Zenon DEF CancelConnect, DropConnection, TypeOK
<1>7. ASSUME NEW c \in Conn, AbortSetup(c)
      PROVE  TypeOK'
      BY <1>0, <1>7, Zenon DEF AbortSetup, TypeOK
<1>8. ASSUME NEW c \in Conn, WriterStarts(c)
      PROVE  TypeOK'
      BY <1>0, <1>8, Zenon DEF WriterStarts, TypeOK
<1>9. ASSUME NEW c \in Conn, WriterEnds(c)
      PROVE  TypeOK'
      BY <1>0, <1>9, Zenon DEF WriterEnds, ChannelOpen, TypeOK
<1>10. ASSUME NEW c \in Conn, DropConnCleanup(c)
      PROVE  TypeOK'
      BY <1>0, <1>10, Zenon DEF DropConnCleanup, TypeOK
<1>11. ASSUME NEW c \in Conn, SenderCleanup(c)
      PROVE  TypeOK'
      BY <1>0, <1>11, Zenon DEF SenderCleanup, TypeOK
<1>12. ASSUME NEW c \in Conn, WriteBatch(c)
      PROVE  TypeOK'
      BY <1>0, <1>12, Zenon DEF WriteBatch, TypeOK
<1>13. ASSUME NEW c \in Conn, Recover(c)
      PROVE  TypeOK'
      BY <1>0, <1>13 DEF Recover, Claim, TypeOK
<1>14. ASSUME NEW c \in Conn, FinalizeSender(c)
      PROVE  TypeOK'
      BY <1>0, <1>14, Zenon DEF FinalizeSender, TypeOK
<1>15. ASSUME NEW c \in Conn, FinalizeConn(c)
      PROVE  TypeOK'
      BY <1>0, <1>15, Zenon DEF FinalizeConn, DropConnection, TypeOK
<1>16. ASSUME NEW a \in Addr, QueueMessage(a)
      PROVE  TypeOK'
      BY <1>0, <1>16, Zenon DEF QueueMessage, TypeOK
<1>17. ASSUME NEW a \in Addr, Disconnect(a)
      PROVE  TypeOK'
      BY <1>0, <1>17, Zenon DEF Disconnect, Claim, TypeOK
<1>18. CASE BeginShutdown \/ UNCHANGED vars
      BY <1>0, <1>18, ZenonT(30) DEF BeginShutdown, vars, TypeOK
<1> QED
      BY <1>1, <1>2, <1>3, <1>4, <1>5, <1>6, <1>7, <1>8, <1>9, <1>10, <1>11, <1>12,
          <1>13, <1>14, <1>15, <1>16, <1>17, <1>18, Zenon
      DEF Next, SetupStep, WriterStep, DisconnectStep

\* A connect, its setup task and its writer stay together.
LEMMA NextStages ==
    ASSUME IInv, [Next]_vars
    PROVE  StagesAgree'
<1> USE DEF To, setupVars, writerVars, closeVars
<1>0. TypeOK /\ StagesAgree /\ AddressOwned /\ EntriesOwned /\ ClaimsFinalized
      BY Zenon DEF IInv
<1>1. ASSUME NEW c \in Conn, Trigger(c)
      PROVE  StagesAgree'
      BY <1>0, <1>1 DEF Trigger, Occupied, TypeOK, StagesAgree, AddressOwned,
          EntriesOwned, ClaimsFinalized
<1>2. ASSUME NEW c \in Conn, HandleNewConnection(c)
      PROVE  StagesAgree'
      BY <1>0, <1>2 DEF HandleNewConnection, TypeOK, StagesAgree, AddressOwned,
          EntriesOwned, ClaimsFinalized
<1>3. ASSUME NEW c \in Conn, AdoptWriter(c)
      PROVE  StagesAgree'
      BY <1>0, <1>3 DEF AdoptWriter, TypeOK, StagesAgree, AddressOwned, EntriesOwned,
          ClaimsFinalized
<1>4. ASSUME NEW c \in Conn, ReturnConn(c)
      PROVE  StagesAgree'
      BY <1>0, <1>4 DEF ReturnConn, DropConnection, TypeOK, StagesAgree, AddressOwned,
          EntriesOwned, ClaimsFinalized
<1>5. ASSUME NEW c \in Conn, Add(c)
      PROVE  StagesAgree'
      BY <1>0, <1>5 DEF Add, DropConnection, TypeOK, StagesAgree, AddressOwned,
          EntriesOwned, ClaimsFinalized
<1>6. ASSUME NEW c \in Conn, CancelConnect(c)
      PROVE  StagesAgree'
      BY <1>0, <1>6 DEF CancelConnect, DropConnection, TypeOK, StagesAgree,
          AddressOwned, EntriesOwned, ClaimsFinalized
<1>7. ASSUME NEW c \in Conn, AbortSetup(c)
      PROVE  StagesAgree'
      BY <1>0, <1>7 DEF AbortSetup, TypeOK, StagesAgree, AddressOwned, EntriesOwned,
          ClaimsFinalized
<1>8. ASSUME NEW c \in Conn, WriterStarts(c)
      PROVE  StagesAgree'
      BY <1>0, <1>8 DEF WriterStarts, TypeOK, StagesAgree, AddressOwned, EntriesOwned,
          ClaimsFinalized
<1>9. ASSUME NEW c \in Conn, WriterEnds(c)
      PROVE  StagesAgree'
      BY <1>0, <1>9 DEF WriterEnds, ChannelOpen, TypeOK, StagesAgree, AddressOwned,
          EntriesOwned, ClaimsFinalized
<1>10. ASSUME NEW c \in Conn, DropConnCleanup(c)
      PROVE  StagesAgree'
      BY <1>0, <1>10 DEF DropConnCleanup, TypeOK, StagesAgree, AddressOwned,
          EntriesOwned, ClaimsFinalized
<1>11. ASSUME NEW c \in Conn, SenderCleanup(c)
      PROVE  StagesAgree'
      BY <1>0, <1>11 DEF SenderCleanup, TypeOK, StagesAgree, AddressOwned, EntriesOwned,
          ClaimsFinalized
<1>12. ASSUME NEW c \in Conn, WriteBatch(c)
      PROVE  StagesAgree'
      BY <1>0, <1>12, Zenon DEF WriteBatch, TypeOK, StagesAgree, AddressOwned, EntriesOwned,
          ClaimsFinalized
<1>13. ASSUME NEW c \in Conn, FinalizeConn(c)
      PROVE  StagesAgree'
      BY <1>0, <1>13 DEF FinalizeConn, DropConnection, TypeOK, StagesAgree,
          AddressOwned, EntriesOwned, ClaimsFinalized
<1>14. ASSUME NEW a \in Addr, QueueMessage(a)
      PROVE  StagesAgree'
      BY <1>0, <1>14 DEF QueueMessage, TypeOK, StagesAgree, AddressOwned, EntriesOwned,
          ClaimsFinalized
<1>15. ASSUME NEW c \in Conn,
             Recover(c) \/ FinalizeSender(c)
      PROVE  StagesAgree'
      BY <1>0, <1>15, Zenon DEF Recover, FinalizeSender, StagesAgree
<1>16. ASSUME NEW a \in Addr, Disconnect(a)
      PROVE  StagesAgree'
      BY <1>0, <1>16, Zenon DEF Disconnect, StagesAgree
<1>17. CASE BeginShutdown \/ UNCHANGED vars
      BY <1>0, <1>17, Zenon DEF BeginShutdown, vars, StagesAgree
<1> QED
      BY <1>1, <1>2, <1>3, <1>4, <1>5, <1>6, <1>7, <1>8, <1>9, <1>10, <1>11, <1>12,
          <1>13, <1>14, <1>15, <1>16, <1>17, Zenon
      DEF Next, SetupStep, WriterStep, DisconnectStep

\* An address is reserved by one instance at a time, and freed by its finalizer.
LEMMA NextAddress ==
    ASSUME IInv, [Next]_vars
    PROVE  AddressOwned'
<1> USE DEF To, setupVars, writerVars, closeVars
<1>0. TypeOK /\ StagesAgree /\ AddressOwned /\ ClaimsFinalized
      BY Zenon DEF IInv
<1>1. ASSUME NEW c \in Conn, Trigger(c)
      PROVE  AddressOwned'
      BY <1>0, <1>1 DEF Trigger, Occupied, TypeOK, StagesAgree, AddressOwned,
          ClaimsFinalized
<1>2. ASSUME NEW c \in Conn, HandleNewConnection(c)
      PROVE  AddressOwned'
      BY <1>0, <1>2 DEF HandleNewConnection, TypeOK, StagesAgree, AddressOwned,
          ClaimsFinalized
<1>3. ASSUME NEW c \in Conn, ReturnConn(c)
      PROVE  AddressOwned'
      BY <1>0, <1>3 DEF ReturnConn, DropConnection, TypeOK, StagesAgree, AddressOwned,
          ClaimsFinalized
<1>4. ASSUME NEW c \in Conn, Add(c)
      PROVE  AddressOwned'
      BY <1>0, <1>4 DEF Add, DropConnection, TypeOK, StagesAgree, AddressOwned,
          ClaimsFinalized
<1>5. ASSUME NEW c \in Conn, CancelConnect(c)
      PROVE  AddressOwned'
      BY <1>0, <1>5 DEF CancelConnect, DropConnection, TypeOK, StagesAgree,
          AddressOwned, ClaimsFinalized
<1>6. ASSUME NEW c \in Conn, AbortSetup(c)
      PROVE  AddressOwned'
      BY <1>0, <1>6 DEF AbortSetup, TypeOK, StagesAgree, AddressOwned, ClaimsFinalized
<1>7. ASSUME NEW c \in Conn, FinalizeConn(c)
      PROVE  AddressOwned'
      BY <1>0, <1>7 DEF FinalizeConn, DropConnection, TypeOK, StagesAgree, AddressOwned,
          ClaimsFinalized
<1>8. ASSUME NEW c \in Conn,
             AdoptWriter(c) \/ WriterStarts(c) \/ WriterEnds(c) \/
             DropConnCleanup(c) \/ SenderCleanup(c) \/ WriteBatch(c) \/ Recover(c) \/
             FinalizeSender(c)
      PROVE  AddressOwned'
      BY <1>0, <1>8, Zenon DEF AdoptWriter, WriterStarts, WriterEnds, DropConnCleanup,
          SenderCleanup, WriteBatch, Recover, FinalizeSender, AddressOwned
<1>9. ASSUME NEW a \in Addr, QueueMessage(a) \/ Disconnect(a)
      PROVE  AddressOwned'
      BY <1>0, <1>9, Zenon DEF QueueMessage, Disconnect, AddressOwned
<1>10. CASE BeginShutdown \/ UNCHANGED vars
      BY <1>0, <1>10, Zenon DEF BeginShutdown, vars, AddressOwned
<1> QED
      BY <1>1, <1>2, <1>3, <1>4, <1>5, <1>6, <1>7, <1>8, <1>9, <1>10, Zenon
      DEF Next, SetupStep, WriterStep, DisconnectStep

\* A claim and its finalizer come and go together.
LEMMA NextClaims ==
    ASSUME IInv, [Next]_vars
    PROVE  ClaimsFinalized'
<1> USE DEF To, setupVars, writerVars, closeVars
<1>0. TypeOK /\ StagesAgree /\ AddressOwned /\ ClaimsFinalized
      BY Zenon DEF IInv
<1>1. ASSUME NEW c \in Conn, Trigger(c)
      PROVE  ClaimsFinalized'
      BY <1>0, <1>1 DEF Trigger, Occupied, TypeOK, StagesAgree, AddressOwned,
          ClaimsFinalized
<1>2. ASSUME NEW c \in Conn, HandleNewConnection(c)
      PROVE  ClaimsFinalized'
      BY <1>0, <1>2 DEF HandleNewConnection, TypeOK, StagesAgree, AddressOwned,
          ClaimsFinalized
<1>3. ASSUME NEW c \in Conn, ReturnConn(c)
      PROVE  ClaimsFinalized'
      BY <1>0, <1>3 DEF ReturnConn, DropConnection, TypeOK, StagesAgree, AddressOwned,
          ClaimsFinalized
<1>4. ASSUME NEW c \in Conn, Add(c)
      PROVE  ClaimsFinalized'
      BY <1>0, <1>4 DEF Add, DropConnection, TypeOK, StagesAgree, AddressOwned,
          ClaimsFinalized
<1>5. ASSUME NEW c \in Conn, CancelConnect(c)
      PROVE  ClaimsFinalized'
      BY <1>0, <1>5 DEF CancelConnect, DropConnection, TypeOK, StagesAgree,
          AddressOwned, ClaimsFinalized
<1>6. ASSUME NEW c \in Conn, AbortSetup(c)
      PROVE  ClaimsFinalized'
      BY <1>0, <1>6 DEF AbortSetup, TypeOK, StagesAgree, AddressOwned, ClaimsFinalized
<1>7. ASSUME NEW c \in Conn, Recover(c)
      PROVE  ClaimsFinalized'
      BY <1>0, <1>7 DEF Recover, Claim, TypeOK, StagesAgree, AddressOwned,
          ClaimsFinalized
<1>8. ASSUME NEW c \in Conn, FinalizeSender(c)
      PROVE  ClaimsFinalized'
      BY <1>0, <1>8 DEF FinalizeSender, TypeOK, StagesAgree, AddressOwned,
          ClaimsFinalized
<1>9. ASSUME NEW c \in Conn, FinalizeConn(c)
      PROVE  ClaimsFinalized'
      BY <1>0, <1>9 DEF FinalizeConn, DropConnection, TypeOK, StagesAgree, AddressOwned,
          ClaimsFinalized
<1>10. ASSUME NEW a \in Addr, Disconnect(a)
      PROVE  ClaimsFinalized'
      BY <1>0, <1>10 DEF Disconnect, Claim, TypeOK, StagesAgree, AddressOwned,
          ClaimsFinalized
<1>11. ASSUME NEW c \in Conn,
             AdoptWriter(c) \/ WriterStarts(c) \/ WriterEnds(c) \/
             DropConnCleanup(c) \/ SenderCleanup(c) \/ WriteBatch(c)
      PROVE  ClaimsFinalized'
      BY <1>0, <1>11, Zenon DEF AdoptWriter, WriterStarts, WriterEnds, DropConnCleanup,
          SenderCleanup, WriteBatch, ClaimsFinalized
<1>12. ASSUME NEW a \in Addr, QueueMessage(a)
      PROVE  ClaimsFinalized'
      BY <1>0, <1>12, Zenon DEF QueueMessage, ClaimsFinalized
<1>13. CASE BeginShutdown \/ UNCHANGED vars
      BY <1>0, <1>13, Zenon DEF BeginShutdown, vars, ClaimsFinalized
<1> QED
      BY <1>1, <1>2, <1>3, <1>4, <1>5, <1>6, <1>7, <1>8, <1>9, <1>10, <1>11, <1>12,
          <1>13, Zenon
      DEF Next, SetupStep, WriterStep, DisconnectStep

\* A sender is published with a writer behind it and an owner who can stop it.
LEMMA NextEntries ==
    ASSUME IInv, [Next]_vars
    PROVE  EntriesOwned'
<1> USE DEF To, setupVars, writerVars, closeVars
<1>0. TypeOK /\ StagesAgree /\ AddressOwned /\ EntriesOwned /\ ClaimsFinalized
      BY Zenon DEF IInv
<1>1. ASSUME NEW c \in Conn, Trigger(c)
      PROVE  EntriesOwned'
      BY <1>0, <1>1 DEF Trigger, Occupied, TypeOK, StagesAgree, AddressOwned,
          EntriesOwned, ClaimsFinalized
<1>2. ASSUME NEW c \in Conn, HandleNewConnection(c)
      PROVE  EntriesOwned'
      BY <1>0, <1>2 DEF HandleNewConnection, TypeOK, StagesAgree, AddressOwned,
          EntriesOwned, ClaimsFinalized
<1>3. ASSUME NEW c \in Conn, AdoptWriter(c)
      PROVE  EntriesOwned'
      BY <1>0, <1>3 DEF AdoptWriter, TypeOK, StagesAgree, AddressOwned, EntriesOwned,
          ClaimsFinalized
<1>4. ASSUME NEW c \in Conn, ReturnConn(c)
      PROVE  EntriesOwned'
      BY <1>0, <1>4 DEF ReturnConn, DropConnection, TypeOK, StagesAgree, AddressOwned,
          EntriesOwned, ClaimsFinalized
<1>5. ASSUME NEW c \in Conn, Add(c)
      PROVE  EntriesOwned'
      BY <1>0, <1>5 DEF Add, DropConnection, TypeOK, StagesAgree, AddressOwned,
          EntriesOwned, ClaimsFinalized
<1>6. ASSUME NEW c \in Conn, CancelConnect(c)
      PROVE  EntriesOwned'
      BY <1>0, <1>6 DEF CancelConnect, DropConnection, TypeOK, StagesAgree,
          AddressOwned, EntriesOwned, ClaimsFinalized
<1>7. ASSUME NEW c \in Conn, AbortSetup(c)
      PROVE  EntriesOwned'
      BY <1>0, <1>7 DEF AbortSetup, TypeOK, StagesAgree, AddressOwned, EntriesOwned,
          ClaimsFinalized
<1>8. ASSUME NEW c \in Conn, WriterStarts(c)
      PROVE  EntriesOwned'
      BY <1>0, <1>8 DEF WriterStarts, TypeOK, StagesAgree, AddressOwned, EntriesOwned,
          ClaimsFinalized
<1>9. ASSUME NEW c \in Conn, WriterEnds(c)
      PROVE  EntriesOwned'
      BY <1>0, <1>9 DEF WriterEnds, ChannelOpen, TypeOK, StagesAgree, AddressOwned,
          EntriesOwned, ClaimsFinalized
<1>10. ASSUME NEW c \in Conn, DropConnCleanup(c)
      PROVE  EntriesOwned'
      BY <1>0, <1>10 DEF DropConnCleanup, TypeOK, StagesAgree, AddressOwned,
          EntriesOwned, ClaimsFinalized
<1>11. ASSUME NEW c \in Conn, SenderCleanup(c)
      PROVE  EntriesOwned'
      BY <1>0, <1>11 DEF SenderCleanup, TypeOK, StagesAgree, AddressOwned, EntriesOwned,
          ClaimsFinalized
<1>12. ASSUME NEW c \in Conn, FinalizeSender(c)
      PROVE  EntriesOwned'
      BY <1>0, <1>12 DEF FinalizeSender, TypeOK, StagesAgree, AddressOwned,
          EntriesOwned, ClaimsFinalized
<1>13. ASSUME NEW c \in Conn, FinalizeConn(c)
      PROVE  EntriesOwned'
      BY <1>0, <1>13 DEF FinalizeConn, DropConnection, TypeOK, StagesAgree,
          AddressOwned, EntriesOwned, ClaimsFinalized
<1>14. ASSUME NEW c \in Conn,
             WriteBatch(c) \/ Recover(c)
      PROVE  EntriesOwned'
      BY <1>0, <1>14 DEF WriteBatch, Recover, EntriesOwned
<1>15. ASSUME NEW a \in Addr, QueueMessage(a) \/ Disconnect(a)
      PROVE  EntriesOwned'
      BY <1>0, <1>15 DEF QueueMessage, Disconnect, EntriesOwned
<1>16. CASE BeginShutdown \/ UNCHANGED vars
      BY <1>0, <1>16 DEF BeginShutdown, vars, EntriesOwned
<1> QED
      BY <1>1, <1>2, <1>3, <1>4, <1>5, <1>6, <1>7, <1>8, <1>9, <1>10, <1>11, <1>12,
          <1>13, <1>14, <1>15, <1>16
      DEF Next, SetupStep, WriterStep, DisconnectStep

\* No other instance's setup, cleanup or finalizer displaces a published sender.
LEMMA NextPublished ==
    ASSUME IInv, [Next]_vars
    PROVE  PublishedStays'
<1> USE DEF To, setupVars, writerVars, closeVars
<1>0. TypeOK /\ StagesAgree /\ AddressOwned /\ EntriesOwned /\ ClaimsFinalized /\ PublishedStays
      BY Zenon DEF IInv
<1>1. ASSUME NEW c \in Conn, Trigger(c)
      PROVE  PublishedStays'
      BY <1>0, <1>1 DEF Trigger, Occupied, TypeOK, StagesAgree, AddressOwned,
          EntriesOwned, ClaimsFinalized, PublishedStays
<1>2. ASSUME NEW c \in Conn, HandleNewConnection(c)
      PROVE  PublishedStays'
      BY <1>0, <1>2 DEF HandleNewConnection, TypeOK, StagesAgree, AddressOwned,
          EntriesOwned, ClaimsFinalized, PublishedStays
<1>3. ASSUME NEW c \in Conn, AdoptWriter(c)
      PROVE  PublishedStays'
      BY <1>0, <1>3 DEF AdoptWriter, TypeOK, StagesAgree, AddressOwned, EntriesOwned,
          ClaimsFinalized, PublishedStays
<1>4. ASSUME NEW c \in Conn, ReturnConn(c)
      PROVE  PublishedStays'
      BY <1>0, <1>4 DEF ReturnConn, DropConnection, TypeOK, StagesAgree, AddressOwned,
          EntriesOwned, ClaimsFinalized, PublishedStays
<1>5. ASSUME NEW c \in Conn, Add(c)
      PROVE  PublishedStays'
      BY <1>0, <1>5 DEF Add, DropConnection, TypeOK, StagesAgree, AddressOwned,
          EntriesOwned, ClaimsFinalized, PublishedStays
<1>6. ASSUME NEW c \in Conn, CancelConnect(c)
      PROVE  PublishedStays'
      BY <1>0, <1>6 DEF CancelConnect, DropConnection, TypeOK, StagesAgree,
          AddressOwned, EntriesOwned, ClaimsFinalized, PublishedStays
<1>7. ASSUME NEW c \in Conn, AbortSetup(c)
      PROVE  PublishedStays'
      BY <1>0, <1>7 DEF AbortSetup, TypeOK, StagesAgree, AddressOwned, EntriesOwned,
          ClaimsFinalized, PublishedStays
<1>8. ASSUME NEW c \in Conn, WriterStarts(c)
      PROVE  PublishedStays'
      BY <1>0, <1>8 DEF WriterStarts, TypeOK, StagesAgree, AddressOwned, EntriesOwned,
          ClaimsFinalized, PublishedStays
<1>9. ASSUME NEW c \in Conn, WriterEnds(c)
      PROVE  PublishedStays'
      BY <1>0, <1>9 DEF WriterEnds, ChannelOpen, TypeOK, StagesAgree, AddressOwned,
          EntriesOwned, ClaimsFinalized, PublishedStays
<1>10. ASSUME NEW c \in Conn, DropConnCleanup(c)
      PROVE  PublishedStays'
      BY <1>0, <1>10 DEF DropConnCleanup, TypeOK, StagesAgree, AddressOwned,
          EntriesOwned, ClaimsFinalized, PublishedStays
<1>11. ASSUME NEW c \in Conn, SenderCleanup(c)
      PROVE  PublishedStays'
      BY <1>0, <1>11 DEF SenderCleanup, TypeOK, StagesAgree, AddressOwned, EntriesOwned,
          ClaimsFinalized, PublishedStays
<1>12. ASSUME NEW c \in Conn, Recover(c)
      PROVE  PublishedStays'
      BY <1>0, <1>12 DEF Recover, Claim, TypeOK, StagesAgree, AddressOwned,
          EntriesOwned, ClaimsFinalized, PublishedStays
<1>13. ASSUME NEW c \in Conn, FinalizeSender(c)
      PROVE  PublishedStays'
      BY <1>0, <1>13 DEF FinalizeSender, TypeOK, StagesAgree, AddressOwned,
          EntriesOwned, ClaimsFinalized, PublishedStays
<1>14. ASSUME NEW c \in Conn, FinalizeConn(c)
      PROVE  PublishedStays'
      BY <1>0, <1>14 DEF FinalizeConn, DropConnection, TypeOK, StagesAgree,
          AddressOwned, EntriesOwned, ClaimsFinalized, PublishedStays
<1>15. ASSUME NEW a \in Addr, Disconnect(a)
      PROVE  PublishedStays'
      BY <1>0, <1>15, Zenon DEF Disconnect, Claim, TypeOK, StagesAgree, AddressOwned,
          EntriesOwned, ClaimsFinalized, PublishedStays
<1>16. ASSUME NEW c \in Conn,
             WriteBatch(c)
      PROVE  PublishedStays'
      BY <1>0, <1>16, Zenon DEF WriteBatch, PublishedStays
<1>17. ASSUME NEW a \in Addr, QueueMessage(a)
      PROVE  PublishedStays'
      BY <1>0, <1>17, Zenon DEF QueueMessage, PublishedStays
<1>18. CASE BeginShutdown \/ UNCHANGED vars
      BY <1>0, <1>18, Zenon DEF BeginShutdown, vars, PublishedStays
<1> QED
      BY <1>1, <1>2, <1>3, <1>4, <1>5, <1>6, <1>7, <1>8, <1>9, <1>10, <1>11, <1>12,
          <1>13, <1>14, <1>15, <1>16, <1>17, <1>18, Zenon
      DEF Next, SetupStep, WriterStep, DisconnectStep

-----------------------------------------------------------------------------
(* Senders: the theorems. *)

\* The invariant of Writing's setups, writers and disconnects.
THEOREM SendersInvariance == Spec => []IInv
<1>1. IInv /\ [Next]_vars => IInv'
      BY NextType, NextStages, NextAddress, NextClaims, NextEntries, NextPublished, Zenon DEF IInv
<1> QED
      BY <1>1, InitInv, PTL DEF Spec

\* The values of the variables are as declared.
THEOREM SendersTypeCorrect == Spec => []TypeOK
<1>1. IInv => TypeOK
      BY Zenon DEF IInv
<1> QED
      BY <1>1, SendersInvariance, PTL

\* A live connection is reachable under its address, however many connections have used
\* that address before, unless a connect to it was dropped.
THEOREM LiveIsReachable == Spec => []LiveConnectionReachable
<1>1. IInv => LiveConnectionReachable
      BY Zenon DEF IInv, PublishedStays, AddressOwned, LiveConnectionReachable, Live, TypeOK
<1> QED
      BY <1>1, SendersInvariance, PTL

\* A message is never queued behind a writer that has ended.
THEOREM EntriesHaveWriters == Spec => []EntryHasWriter
<1>1. IInv => EntryHasWriter
      BY Zenon DEF IInv, EntriesOwned, EntryHasWriter
<1> QED
      BY <1>1, SendersInvariance, PTL

\* No writer with an open channel is left without an owner who can stop it.
THEOREM WritersAreOwned == Spec => []WriterOwned
<1>1. IInv => WriterOwned
      BY DEF IInv, EntriesOwned, WriterOwned, ChannelOpen, TypeOK
<1> QED
      BY <1>1, SendersInvariance, PTL

HIDE SendersAssumption

-----------------------------------------------------------------------------
(* Punch: the parts of the invariant, one lemma each, one step for each action. *)

\* Nobody has registered at first.
LEMMA PunchInitInv == PunchInit => PunchInv
<1> SUFFICES ASSUME PunchInit PROVE PunchInv
    BY Zenon
<1>1. PunchTypes
      BY PunchAssumption DEF PunchInit, PunchTypes
<1>2. OnePlace /\ GivenByPairing /\ StillThere
      BY PunchAssumption, Zenon DEF PunchInit, OnePlace, GivenByPairing, StillThere, Unpaired
<1> QED
      BY <1>1, <1>2, Zenon DEF PunchInv

\* Every step keeps the variables well-typed.
LEMMA PunchNextTypes ==
    ASSUME PunchInv, [PunchNext]_punchVars
    PROVE  PunchTypes'
<1> USE PunchAssumption DEF Put, serverVars, peerVars, p2pVars
<1>0. PunchTypes /\ GivenByPairing
      BY Zenon DEF PunchInv
<1>1. ASSUME NEW p \in Puncher, RegisterPeer(p)
      PROVE  PunchTypes'
      BY <1>0, <1>1, Zenon DEF RegisterPeer, PunchTypes
<1>2. ASSUME NEW p \in Puncher, Pair(p)
      PROVE  PunchTypes'
  <2>1. told' \in [Puncher -> Puncher \cup {Nobody}]
        BY <1>0, <1>2 DEF Pair, Notify, PunchTypes
  <2>2. registering' \subseteq served /\ pending' \in Puncher \cup {Nobody}
        BY <1>0, <1>2, Zenon DEF Pair, PunchTypes
  <2>3. UNCHANGED <<served, peerVars, p2pVars, losses>>
        BY <1>2, Zenon DEF Pair
  <2> QED
        BY <1>0, <2>1, <2>2, <2>3 DEF PunchTypes
<1>3. ASSUME NEW p \in Puncher, Unserved(p)
      PROVE  PunchTypes'
      BY <1>0, <1>3, Zenon DEF Unserved, PunchTypes
<1>4. ASSUME NEW p \in Puncher, Paired(p)
      PROVE  PunchTypes'
      BY <1>0, <1>4 DEF Paired, PunchTypes
<1>5. ASSUME NEW p \in Puncher, BindFails(p)
      PROVE  PunchTypes'
      BY <1>0, <1>5 DEF BindFails, NextAttempt, PunchTypes
<1>6. ASSUME NEW p \in Puncher, Dial(p)
      PROVE  PunchTypes'
      BY <1>0, <1>6 DEF Dial, Punching, NextAttempt, PunchTypes
<1>7. ASSUME NEW p \in Puncher, Refused(p)
      PROVE  PunchTypes'
      BY <1>0, <1>7, Zenon DEF Refused, PunchTypes
<1>8. ASSUME NEW p \in Puncher, Disconnects(p)
      PROVE  PunchTypes'
      BY <1>0, <1>8 DEF Disconnects, Punched, Punching, PunchTypes
<1>9. ASSUME NEW p \in Puncher, NEW q \in Puncher, Cross(p, q)
      PROVE  PunchTypes'
      BY <1>0, <1>9 DEF Cross, PunchTypes
<1>10. ASSUME NEW p \in Puncher, Greeted(p)
      PROVE  PunchTypes'
      BY <1>0, <1>10 DEF Greeted, PunchTypes
<1>11. ASSUME NEW p \in Puncher, P2PLost(p)
      PROVE  PunchTypes'
      BY <1>0, <1>11 DEF P2PLost, PunchTypes
<1>12. ASSUME NEW p \in Puncher, SignalingLost(p)
      PROVE  PunchTypes'
      BY <1>0, <1>12 DEF SignalingLost, PunchTypes
<1>13. ASSUME NEW p \in Puncher, Dies(p)
      PROVE  PunchTypes'
      BY <1>0, <1>13 DEF Dies, PunchTypes
<1>14. CASE UNCHANGED punchVars
      BY <1>0, <1>14, Zenon DEF punchVars, PunchTypes
<1> QED
      BY <1>1, <1>2, <1>3, <1>4, <1>5, <1>6, <1>7, <1>8, <1>9, <1>10, <1>11, <1>12, <1>13,
         <1>14, Zenon
      DEF PunchNext, PeerStep

\* A peer stays in one place: it registers once, and leaves a place when it enters the next.
LEMMA PunchNextOnePlace ==
    ASSUME PunchInv, [PunchNext]_punchVars
    PROVE  OnePlace'
<1> USE PunchAssumption DEF Put, serverVars, peerVars, p2pVars
<1>0. PunchTypes /\ OnePlace
      BY Zenon DEF PunchInv
<1>1. ASSUME NEW p \in Puncher, RegisterPeer(p)
      PROVE  OnePlace'
      BY <1>0, <1>1 DEF RegisterPeer, PunchTypes, OnePlace, Unpaired
<1>2. ASSUME NEW p \in Puncher, Pair(p), pending = Nobody
      PROVE  OnePlace'
  <2>1. /\ p \in registering /\ registering' = registering \ {p} /\ pending' = p
        /\ UNCHANGED <<paired, signaling>>
        BY <1>2, Zenon DEF Pair
  <2> QED
        BY <1>0, <2>1, Zenon DEF PunchTypes, OnePlace, Unpaired
<1>3. ASSUME NEW p \in Puncher, Pair(p), pending # Nobody
      PROVE  OnePlace'
  <2>1. /\ p \in registering /\ registering' = registering \ {p} /\ pending' = Nobody
        /\ paired' = paired \cup {{pending, p}} /\ UNCHANGED signaling
        BY <1>3, Zenon DEF Pair
  <2>2. Unpaired(p) /\ Unpaired(pending) /\ pending # p /\ pending \in Puncher
        BY <1>0, <1>3, <2>1, Zenon DEF PunchTypes, OnePlace
  <2>3. \A s \in paired : s \cap {pending, p} = {}
        BY <2>2, Zenon DEF Unpaired
  <2>4. \A s, t \in paired' : s = t \/ s \cap t = {}
        BY <1>0, <2>1, <2>3, Zenon DEF OnePlace
  <2>5. \A r \in Puncher : (signaling[r] = "off" \/ r \in registering') =>
            r # pending' /\ Unpaired(r)'
    <3> SUFFICES ASSUME NEW r \in Puncher, signaling[r] = "off" \/ r \in registering'
                 PROVE  r # pending' /\ Unpaired(r)'
        BY Zenon
    <3>1. r # pending /\ r # p /\ Unpaired(r)
          BY <1>0, <2>1, Zenon DEF OnePlace
    <3> QED
          BY <2>1, <3>1, Zenon DEF Unpaired
  <2>6. \A r \in Puncher : signaling[r] = "off" => r \notin registering'
        BY <1>0, <2>1, Zenon DEF OnePlace
  <2>7. registering' \subseteq Puncher
        BY <1>0, <2>1, Zenon DEF PunchTypes
  <2> QED
        BY <2>1, <2>4, <2>5, <2>6, <2>7, Zenon DEF OnePlace
<1>4. ASSUME NEW p \in Puncher, Unserved(p)
      PROVE  OnePlace'
      BY <1>0, <1>4, Zenon DEF Unserved, PunchTypes, OnePlace, Unpaired
<1>5. ASSUME UNCHANGED <<registering, pending, paired>>,
             \A p \in Puncher : signaling'[p] = "off" => signaling[p] = "off"
      PROVE  OnePlace'
      BY <1>0, <1>5, Zenon DEF OnePlace, Unpaired
<1>6. ASSUME NEW p \in Puncher,
             Paired(p) \/ BindFails(p) \/ Dial(p) \/ Refused(p) \/ Disconnects(p)
      PROVE  OnePlace'
  <2>1. UNCHANGED <<registering, pending, paired>>
        BY <1>6, Zenon DEF Paired, BindFails, Dial, Refused, Disconnects
  <2>2. \A r \in Puncher : signaling'[r] = "off" => signaling[r] = "off"
        BY <1>0, <1>6, Zenon DEF Paired, BindFails, Dial, Refused, Disconnects, PunchTypes
  <2> QED
        BY <1>5, <2>1, <2>2, Zenon
<1>7. ASSUME NEW p \in Puncher,
             Greeted(p) \/ P2PLost(p) \/ SignalingLost(p) \/ Dies(p) \/ \E q \in Puncher : Cross(p, q)
      PROVE  OnePlace'
  <2>1. UNCHANGED <<registering, pending, paired>>
        BY <1>7, Zenon DEF Greeted, P2PLost, SignalingLost, Dies, Cross
  <2>2. \A r \in Puncher : signaling'[r] = "off" => signaling[r] = "off"
    <3>1. CASE Greeted(p) \/ P2PLost(p)
          BY <3>1, Zenon DEF Greeted, P2PLost
    <3>3. ASSUME NEW q \in Puncher, Cross(p, q)
          PROVE  \A r \in Puncher : signaling'[r] = "off" => signaling[r] = "off"
      <4>1. /\ signaling' = [signaling EXCEPT ![p] = "crossed", ![q] = "crossed"]
            /\ DOMAIN signaling = Puncher
            BY <1>0, <3>3, Zenon DEF Cross, PunchTypes
      <4> QED
            BY <4>1
    <3>2. CASE SignalingLost(p) \/ Dies(p)
      <4>1. signaling' = Put(signaling, p, "closed") /\ DOMAIN signaling = Puncher
            BY <1>0, <3>2, Zenon DEF SignalingLost, Dies, PunchTypes
      <4> QED
            BY <4>1, Zenon
    <3> QED
          BY <1>7, <3>1, <3>2, <3>3, Zenon
  <2> QED
        BY <1>5, <2>1, <2>2, Zenon
<1>8. CASE UNCHANGED punchVars
      BY <1>5, <1>8, Zenon DEF punchVars
<1> QED
      BY <1>1, <1>2, <1>3, <1>4, <1>6, <1>7, <1>8, Zenon DEF PunchNext, PeerStep

\* A partner is named by a pairing and nothing else, and a connection is with the partner.
LEMMA PunchNextGiven ==
    ASSUME PunchInv, [PunchNext]_punchVars
    PROVE  GivenByPairing'
<1> USE PunchAssumption DEF Put, serverVars, peerVars, p2pVars
<1>0. PunchTypes /\ GivenByPairing
      BY Zenon DEF PunchInv
<1>1. ASSUME NEW p \in Puncher, RegisterPeer(p)
      PROVE  GivenByPairing'
      BY <1>0, <1>1, Zenon DEF RegisterPeer, PunchTypes, GivenByPairing
<1>2. ASSUME NEW p \in Puncher, Pair(p)
      PROVE  GivenByPairing'
  <2>1. UNCHANGED <<partner, p2p, signaling>> /\ paired \subseteq paired'
        BY <1>2, Zenon DEF Pair
  <2>2. ASSUME NEW r \in Puncher, told'[r] # Nobody
        PROVE  {r, told'[r]} \in paired'
    <3>1. CASE told'[r] = told[r]
          BY <1>0, <2>1, <2>2, <3>1, Zenon DEF GivenByPairing
    <3>2. CASE told'[r] # told[r]
      <4>1. /\ paired' = paired \cup {{pending, p}}
            /\ (r = pending /\ told'[r] = p) \/ (r = p /\ told'[r] = pending)
            BY <1>0, <1>2, <3>2 DEF Pair, Notify, PunchTypes
      <4>2. {r, told'[r]} = {pending, p}
            BY <4>1, Zenon
      <4> QED
            BY <4>1, <4>2, Zenon
    <3> QED
          BY <3>1, <3>2, Zenon
  <2> QED
        BY <1>0, <2>1, <2>2, Zenon DEF GivenByPairing
<1>3. ASSUME NEW p \in Puncher, Paired(p)
      PROVE  GivenByPairing'
      BY <1>0, <1>3, Zenon DEF Paired, PunchTypes, GivenByPairing
<1>4. ASSUME NEW p \in Puncher, Disconnects(p)
      PROVE  GivenByPairing'
      BY <1>0, <1>4, Zenon DEF Disconnects, PunchTypes, GivenByPairing
<1>5. ASSUME NEW p \in Puncher, NEW q \in Puncher, Cross(p, q)
      PROVE  GivenByPairing'
      BY <1>0, <1>5, Zenon DEF Cross, PunchTypes, GivenByPairing
<1>6. ASSUME NEW p \in Puncher, P2PLost(p)
      PROVE  GivenByPairing'
      BY <1>0, <1>6, Zenon DEF P2PLost, PunchTypes, GivenByPairing
<1>7. ASSUME NEW p \in Puncher, SignalingLost(p)
      PROVE  GivenByPairing'
      BY <1>0, <1>7, Zenon DEF SignalingLost, PunchTypes, GivenByPairing
<1>8. ASSUME NEW p \in Puncher, Dies(p)
      PROVE  GivenByPairing'
      BY <1>0, <1>8, Zenon DEF Dies, PunchTypes, GivenByPairing
<1>9. ASSUME UNCHANGED <<told, partner, p2p, signaling, paired>>
      PROVE  GivenByPairing'
      BY <1>0, <1>9, Zenon DEF GivenByPairing
<1>10. ASSUME NEW p \in Puncher,
              Unserved(p) \/ BindFails(p) \/ Dial(p) \/ Refused(p) \/ Greeted(p)
       PROVE  UNCHANGED <<told, partner, p2p, signaling, paired>>
       BY <1>10, Zenon DEF Unserved, BindFails, Dial, Refused, Greeted
<1>11. CASE UNCHANGED punchVars
       BY <1>9, <1>11, Zenon DEF punchVars
<1> QED
      BY <1>1, <1>2, <1>3, <1>4, <1>5, <1>6, <1>7, <1>8, <1>9, <1>10, <1>11, Zenon
      DEF PunchNext, PeerStep

\* Only a loss takes away a peer that is registered and not paired yet.
LEMMA PunchNextStillThere ==
    ASSUME PunchInv, [PunchNext]_punchVars
    PROVE  StillThere'
<1> USE PunchAssumption DEF Put, serverVars, peerVars, p2pVars
<1>0. PunchTypes /\ OnePlace /\ GivenByPairing /\ StillThere
      BY Zenon DEF PunchInv
<1>1. ASSUME NEW p \in Puncher, RegisterPeer(p)
      PROVE  StillThere'
      BY <1>0, <1>1, Zenon DEF RegisterPeer, PunchTypes, StillThere
<1>2. ASSUME NEW p \in Puncher, Pair(p)
      PROVE  StillThere'
      BY <1>0, <1>2, Zenon DEF Pair, PunchTypes, StillThere
<1>3. ASSUME NEW p \in Puncher, Unserved(p)
      PROVE  StillThere'
      BY <1>0, <1>3, Zenon DEF Unserved, IdleElapsed, PunchTypes, StillThere
<1>4. ASSUME NEW p \in Puncher, Paired(p)
      PROVE  StillThere'
  <2>1. p \notin registering /\ p # pending
        BY <1>0, <1>4, Zenon DEF Paired, OnePlace, GivenByPairing, Unpaired
  <2> QED
        BY <1>0, <1>4, <2>1, Zenon DEF Paired, PunchTypes, StillThere
<1>5. ASSUME NEW p \in Puncher, Disconnects(p)
      PROVE  StillThere'
      BY <1>0, <1>5, Zenon DEF Disconnects, Punched, Punching, PunchTypes, StillThere
<1>6. ASSUME NEW p \in Puncher, SignalingLost(p) \/ Dies(p)
      PROVE  StillThere'
  <2>1. losses' = losses + 1
        BY <1>6, Zenon DEF SignalingLost, Dies
  <2> QED
        BY <1>0, <2>1 DEF PunchTypes, StillThere
<1>7. ASSUME UNCHANGED <<signaling, served, registering, pending, losses>>
      PROVE  StillThere'
      BY <1>0, <1>7, Zenon DEF StillThere
<1>8. ASSUME NEW p \in Puncher,
             BindFails(p) \/ Dial(p) \/ Refused(p) \/ Greeted(p) \/ P2PLost(p)
      PROVE  UNCHANGED <<signaling, served, registering, pending, losses>>
      BY <1>8, Zenon DEF BindFails, Dial, Refused, Greeted, P2PLost
<1>9. CASE UNCHANGED punchVars
      BY <1>7, <1>9, Zenon DEF punchVars
<1>10. ASSUME NEW p \in Puncher, NEW q \in Puncher, Cross(p, q)
       PROVE  StillThere'
  <2>1. /\ signaling' = [signaling EXCEPT ![p] = "crossed", ![q] = "crossed"]
        /\ signaling[p] = "punching" /\ signaling[q] = "punching"
        /\ UNCHANGED <<served, registering, pending, losses>>
        BY <1>0, <1>10, Zenon DEF Cross, PunchTypes
  <2> QED
        BY <1>0, <2>1 DEF PunchTypes, StillThere
<1> QED
      BY <1>1, <1>2, <1>3, <1>4, <1>5, <1>6, <1>7, <1>8, <1>9, <1>10, Zenon DEF PunchNext, PeerStep

\* The invariant holds in every reachable state.
THEOREM PunchInductive == PunchSpec => []PunchInv
<1>1. PunchInv /\ [PunchNext]_punchVars => PunchInv'
      BY PunchNextTypes, PunchNextOnePlace, PunchNextGiven, PunchNextStillThere, Zenon DEF PunchInv
<1> QED
      BY <1>1, PunchInitInv, PTL DEF PunchSpec

\* However many peers register, die and lose their connections, in whatever order: no peer
\* is in two pairs, a connection is between the two of a pair, and without a loss the peer
\* that waits for a partner keeps its connection to the rendezvous.
THEOREM PunchPairingSound == PunchSpec => []PairingSound
<1>1. PunchInv => PairingSound
  <2> SUFFICES ASSUME PunchInv PROVE PairingSound
      BY Zenon
  <2>1. \A s, t \in paired : s = t \/ s \cap t = {}
        BY Zenon DEF PunchInv, OnePlace
  <2>2. \A p \in Puncher : p2p[p] # Nobody => {p, p2p[p]} \in paired /\ partner[p] = p2p[p]
        BY Zenon DEF PunchInv, GivenByPairing
  <2>3. (losses = 0 /\ pending # Nobody) => pending \in served /\ signaling[pending] = "waiting"
        BY Zenon DEF PunchInv, PunchTypes, StillThere
  <2> QED
        BY <2>1, <2>2, <2>3, Zenon DEF PairingSound
<1> QED
      BY <1>1, PunchInductive, PTL

\* The types of the hole punching example; only a peer that is punching dials.
THEOREM PunchTypesOK == PunchSpec => []PunchTypeOK
<1>1. PunchInv => PunchTypeOK
      BY Zenon DEF PunchInv, PunchTypes, PunchTypeOK
<1> QED
      BY <1>1, PunchInductive, PTL

-----------------------------------------------------------------------------
(* Locks: the sections keep to the order. *)

\* All that s takes ranks higher than n.
Above(s, n) == \A i \in 1..Len(s) : s[i].do = "take" => LockRank(s[i].lock) > n

OrderedAbove(s, n) == s \in Seq(LockStep) /\ Disciplined(s) /\ Above(s, n)

\* The fields of a step.
LEMMA StepFields ==
    /\ \A l, m : Take(l, m).do = "take" /\ Take(l, m).lock = l /\ Take(l, m).mode = m
    /\ \A l : Drop(l).do = "drop" /\ Drop(l).lock = l
    /\ \A l \in Lock : Drop(l) \in LockStep
    /\ \A l \in Lock, m \in {"read", "write"} : Take(l, m) \in LockStep
    /\ \A l \in Lock : LockRank(l) \in Nat
    /\ \A l, k : Drop(l) = Drop(k) => l = k
<1>1. \A l, m : Take(l, m).do = "take" /\ Take(l, m).lock = l /\ Take(l, m).mode = m
      BY Zenon DEF Take
<1>2. \A l : Drop(l).do = "drop" /\ Drop(l).lock = l
      BY Zenon DEF Drop
<1>3. \A l \in Lock : Drop(l) \in LockStep
      BY DEF LockStep
<1>4. \A l \in Lock, m \in {"read", "write"} : Take(l, m) \in LockStep
      BY DEF LockStep
<1>5. \A l \in Lock : LockRank(l) \in Nat
      BY Zenon DEF LockRank
<1>6. \A l, k : Drop(l) = Drop(k) => l = k
      BY <1>2
<1> QED
      BY <1>1, <1>2, <1>3, <1>4, <1>5, <1>6, Zenon

\* A step takes or drops a lock.
LEMMA StepCases ==
    ASSUME NEW x \in LockStep
    PROVE  /\ x.lock \in Lock
           /\ \/ x.do = "take" /\ x.mode \in {"read", "write"} /\ x = Take(x.lock, x.mode)
              \/ x.do = "drop" /\ x = Drop(x.lock)
<1>1. CASE \E l \in Lock, m \in {"read", "write"} : x = Take(l, m)
      BY <1>1, StepFields
<1>2. CASE \E l \in Lock : x = Drop(l)
      BY <1>2, StepFields, Zenon
<1> QED
      BY <1>1, <1>2 DEF LockStep

\* The empty section.
LEMMA EmptyOrdered == \A n : OrderedAbove(<<>>, n)
<1>1. <<>> \in Seq(LockStep) /\ Len(<<>>) = 0
      BY EmptySeq, Zenon
<1> QED
      BY <1>1 DEF OrderedAbove, Disciplined, Above

\* Two sections, one after the other.
LEMMA ConcatOrdered ==
    ASSUME NEW n \in Int, NEW s, NEW r, OrderedAbove(s, n), OrderedAbove(r, n)
    PROVE  OrderedAbove(s \o r, n)
<1> DEFINE c == s \o r
           a == Len(s)
           b == Len(r)
<1>1. s \in Seq(LockStep) /\ r \in Seq(LockStep) /\ a \in Nat /\ b \in Nat
      BY LenProperties, Zenon DEF OrderedAbove
<1>2. /\ c \in Seq(LockStep) /\ Len(c) = a + b
      /\ \A i \in 1..(a + b) : c[i] = IF i <= a THEN s[i] ELSE r[i - a]
      BY <1>1, ConcatProperties, Zenon
<1> HIDE DEF c, a, b
<1>3. Above(c, n)
  <2>1. ASSUME NEW i \in 1..(a + b), c[i].do = "take"
        PROVE  LockRank(c[i].lock) > n
    <3>1. CASE i <= a
          BY <1>1, <1>2, <2>1, <3>1 DEF Above, OrderedAbove, a
    <3>2. CASE i > a
      <4>1. c[i] = r[i - a] /\ i - a \in 1..Len(r)
            BY <1>1, <1>2, <3>2 DEF b
      <4> QED
            BY <2>1, <4>1, Zenon DEF Above, OrderedAbove
    <3> QED
          BY <1>1, <3>1, <3>2
  <2> QED
        BY <1>2, <2>1, Zenon DEF Above
<1>4. ASSUME NEW i \in 1..(a + b), c[i].do = "take"
      PROVE  \E j \in (i + 1)..(a + b) : DroppedAt(c, i, j, c[i].lock)
  <2>1. CASE i <= a
    <3>1. c[i] = s[i] /\ i \in 1..Len(s)
          BY <1>1, <1>2, <2>1 DEF a
    <3>2. PICK j \in (i + 1)..a : DroppedAt(s, i, j, s[i].lock)
          BY <1>4, <3>1, Zenon DEF OrderedAbove, Disciplined, a
    <3>3. c[j] = s[j] /\ \A k \in (i + 1)..(j - 1) : c[k] = s[k]
      <4>1. /\ j \in 1..(a + b) /\ j <= a
            /\ \A k \in (i + 1)..(j - 1) : k \in 1..(a + b) /\ k <= a
            BY <1>1, <3>2
      <4> QED
            BY <1>2, <4>1, Zenon
    <3>4. DroppedAt(c, i, j, c[i].lock)
          BY <3>1, <3>2, <3>3, Zenon DEF DroppedAt
    <3>5. j \in (i + 1)..(a + b)
          BY <1>1, <3>2
    <3> QED
          BY <3>4, <3>5, Zenon
  <2>2. CASE i > a
    <3>1. c[i] = r[i - a] /\ i - a \in 1..Len(r)
          BY <1>1, <1>2, <2>2 DEF b
    <3>2. PICK j \in (i - a + 1)..b : DroppedAt(r, i - a, j, r[i - a].lock)
          BY <1>4, <3>1, Zenon DEF OrderedAbove, Disciplined, b
    <3>3. j + a \in (i + 1)..(a + b) /\ c[j + a] = r[j]
      <4>1. /\ j + a \in (i + 1)..(a + b) /\ j + a \in 1..(a + b)
            /\ ~(j + a <= a) /\ (j + a) - a = j
            BY <1>1, <2>2
      <4> QED
            BY <1>2, <4>1, Zenon
    <3>4. \A k \in (i + 1)..(j + a - 1) : c[k] = r[k - a] /\ k - a \in (i - a + 1)..(j - 1)
          BY <1>1, <1>2, <2>2, <3>2
    <3>5. \A k \in (i + 1)..(j + a - 1) :
            c[k].do = "take" => LockRank(c[k].lock) > LockRank(c[i].lock)
          BY <3>1, <3>2, <3>4, Zenon DEF DroppedAt
    <3>6. DroppedAt(c, i, j + a, c[i].lock)
      <4>1. c[j + a] = Drop(c[i].lock)
            BY <3>1, <3>2, <3>3, Zenon DEF DroppedAt
      <4> QED
            BY <1>1, <3>5, <4>1 DEF DroppedAt
    <3> QED
          BY <3>3, <3>6, Zenon
  <2> QED
        BY <1>1, <2>1, <2>2
<1>5. Disciplined(c)
      BY <1>2, <1>4, Zenon DEF Disciplined
<1>6. OrderedAbove(c, n)
      BY <1>2, <1>3, <1>5, Zenon DEF OrderedAbove
<1> QED
      BY <1>6, Zenon DEF c

\* A section within a lock that ranks lower than all it takes.
LEMMA WithinOrdered ==
    ASSUME NEW n \in Int, NEW lock \in Lock, NEW mode \in {"read", "write"}, NEW s,
           OrderedAbove(s, LockRank(lock)), n < LockRank(lock)
    PROVE  OrderedAbove(Within(lock, mode, s), n)
<1> DEFINE c == Within(lock, mode, s)
           a == Len(s)
<1>1. /\ s \in Seq(LockStep) /\ a \in Nat
      /\ <<Take(lock, mode)>> \in Seq(LockStep) /\ <<Drop(lock)>> \in Seq(LockStep)
      BY LenProperties, StepFields DEF OrderedAbove
<1>2. /\ c \in Seq(LockStep) /\ Len(c) = a + 2
      /\ c[1] = Take(lock, mode) /\ c[a + 2] = Drop(lock)
      /\ \A i \in 2..(a + 1) : c[i] = s[i - 1]
  <2> DEFINE d == <<Take(lock, mode)>> \o s
  <2>1. /\ d \in Seq(LockStep) /\ Len(d) = a + 1 /\ d[1] = Take(lock, mode)
        /\ \A i \in 2..(a + 1) : d[i] = s[i - 1]
        BY <1>1, ConcatProperties
  <2> HIDE DEF d
  <2>2. /\ d \o <<Drop(lock)>> \in Seq(LockStep) /\ Len(d \o <<Drop(lock)>>) = a + 2
        /\ \A i \in 1..(a + 2) : (d \o <<Drop(lock)>>)[i] =
                IF i <= a + 1 THEN d[i] ELSE <<Drop(lock)>>[i - (a + 1)]
        BY <1>1, <2>1, ConcatProperties
  <2>3. c = d \o <<Drop(lock)>>
        BY Zenon DEF Within, d
  <2> QED
        BY <1>1, <2>1, <2>2, <2>3
<1> HIDE DEF c, a
<1>3. Above(c, n) /\ Above(s, LockRank(lock))
  <2>1. LockRank(lock) \in Nat /\ Above(s, LockRank(lock))
        BY StepFields, Zenon DEF OrderedAbove
  <2>2. ASSUME NEW i \in 1..(a + 2), c[i].do = "take"
        PROVE  LockRank(c[i].lock) > n
    <3>1. CASE i = 1
          BY <1>2, <2>1, <3>1, StepFields
    <3>2. CASE i = a + 2
          BY <1>2, <2>2, <3>2, StepFields, Zenon
    <3>3. CASE i \in 2..(a + 1)
      <4>1. c[i] = s[i - 1] /\ i - 1 \in 1..Len(s)
            BY <1>1, <1>2, <3>3 DEF a
      <4>2. s[i - 1].lock \in Lock
            BY <1>1, <4>1, ElementOfSeq, StepCases, Zenon
      <4>3. LockRank(s[i - 1].lock) > LockRank(lock) /\ LockRank(s[i - 1].lock) \in Nat
            BY <2>1, <2>2, <4>1, <4>2, StepFields, Zenon DEF Above
      <4> QED
            BY <2>1, <4>1, <4>3
    <3> QED
          BY <1>1, <3>1, <3>2, <3>3
  <2> QED
        BY <1>2, <2>1, <2>2, Zenon DEF Above
<1>4. ASSUME NEW i \in 1..(a + 2), c[i].do = "take"
      PROVE  \E j \in (i + 1)..(a + 2) : DroppedAt(c, i, j, c[i].lock)
  <2>1. CASE i = 1
    <3>1. c[i].lock = lock
          BY <1>2, <2>1, StepFields
    <3>2. \A k \in 2..(a + 1) : c[k].do = "take" => LockRank(c[k].lock) > LockRank(lock)
          BY <1>1, <1>2, <1>3 DEF Above, a
    <3>3. DroppedAt(c, i, a + 2, c[i].lock)
          BY <1>1, <1>2, <2>1, <3>1, <3>2 DEF DroppedAt
    <3> QED
          BY <1>1, <2>1, <3>3
  <2>2. CASE i = a + 2
        BY <1>2, <1>4, <2>2, StepFields, Zenon
  <2>3. CASE i \in 2..(a + 1)
    <3>1. c[i] = s[i - 1] /\ i - 1 \in 1..Len(s)
          BY <1>1, <1>2, <2>3 DEF a
    <3>2. PICK j \in i..a : DroppedAt(s, i - 1, j, s[i - 1].lock)
          BY <1>1, <1>4, <2>3, <3>1 DEF OrderedAbove, Disciplined, a
    <3>3. /\ j + 1 \in (i + 1)..(a + 2) /\ c[j + 1] = s[j]
          /\ \A k \in (i + 1)..j : c[k] = s[k - 1] /\ k - 1 \in i..(j - 1)
      <4>1. j + 1 \in (i + 1)..(a + 2) /\ j + 1 \in 2..(a + 1) /\ (j + 1) - 1 = j
            BY <1>1, <2>3
      <4>2. \A k \in (i + 1)..j : k \in 2..(a + 1) /\ k - 1 \in i..(j - 1)
            BY <1>1, <2>3
      <4> QED
            BY <1>2, <4>1, <4>2, Zenon
    <3>4. \A k \in (i + 1)..j : c[k].do = "take" => LockRank(c[k].lock) > LockRank(c[i].lock)
      <4>1. \A k \in i..(j - 1) : s[k].do = "take" => LockRank(s[k].lock) > LockRank(c[i].lock)
            BY <2>3, <3>1, <3>2 DEF DroppedAt
      <4> QED
            BY <3>3, <4>1, Zenon
    <3>5. c[j + 1] = Drop(c[i].lock) /\ (j + 1) - 1 = j
          BY <1>1, <3>1, <3>2, <3>3 DEF DroppedAt
    <3>6. DroppedAt(c, i, j + 1, c[i].lock)
          BY <3>4, <3>5, Zenon DEF DroppedAt
    <3> QED
          BY <3>3, <3>6, Zenon
  <2> QED
        BY <1>1, <2>1, <2>2, <2>3
<1>5. Disciplined(c)
      BY <1>2, <1>4, Zenon DEF Disciplined
<1>6. OrderedAbove(c, n)
      BY <1>2, <1>3, <1>5, Zenon DEF OrderedAbove
<1> QED
      BY <1>6, Zenon DEF c

\* Every section of the library keeps to the order, "limits -> active" included.
THEOREM SectionsDisciplined ==
    \A s \in Sections : s \in Seq(LockStep) /\ Disciplined(s)
<1>1. /\ LockRank("limits") = 1 /\ LockRank("active") = 2 /\ LockRank("senders") = 1
      /\ LockRank("tasks") = 2 /\ LockRank("listening_addr") = 1
      BY Zenon DEF LockRank
<1>2. OrderedAbove(DropGuard, 0)
      BY <1>1, EmptyOrdered, WithinOrdered DEF DropGuard, Lock
<1>3. \A m \in {"read", "write"} : OrderedAbove(Within("active", m, <<>>), 1)
                                /\ OrderedAbove(Within("active", m, <<>>), 0)
      BY <1>1, EmptyOrdered, WithinOrdered DEF Lock
<1>4. \A m \in {"read", "write"} : OrderedAbove(Within("senders", m, <<>>), 0)
      BY <1>1, EmptyOrdered, WithinOrdered DEF Lock
<1>5. \A m \in {"read", "write"} : OrderedAbove(Within("listening_addr", m, <<>>), 0)
      BY <1>1, EmptyOrdered, WithinOrdered DEF Lock
<1>6. OrderedAbove(register_task, 1) /\ OrderedAbove(register_task, 0)
      BY <1>1, EmptyOrdered, WithinOrdered DEF register_task, Lock
<1>7. OrderedAbove(check_and_reserve, 0)
      BY <1>1, <1>3, WithinOrdered DEF check_and_reserve, Lock
<1>8. OrderedAbove(AddConnection, 0)
      BY <1>2, <1>3, ConcatOrdered DEF AddConnection
<1>9. OrderedAbove(Finalize, 0)
  <2>1. OrderedAbove(Within("limits", "write", Within("active", "write", <<>>)), 0)
        BY <1>1, <1>3, WithinOrdered DEF Lock
  <2> QED
        BY <1>4, <2>1, ConcatOrdered DEF Finalize
<1>10. OrderedAbove(ReadActive, 0) /\ OrderedAbove(AttachHook, 0)
       BY <1>3, Zenon DEF ReadActive, AttachHook
<1>11. OrderedAbove(Broadcast, 0) /\ OrderedAbove(WriteSenders, 0)
       BY <1>4, ConcatOrdered DEF Broadcast, WriteSenders
<1>12. OrderedAbove(toggle_listener, 0) /\ OrderedAbove(listening_addr, 0)
       BY <1>1, <1>5, <1>6, WithinOrdered DEF toggle_listener, listening_addr, Lock
<1>13. OrderedAbove(shut_down, 0)
       BY <1>5, <1>6, <1>10, ConcatOrdered DEF shut_down
<1> QED
      BY <1>2, <1>6, <1>7, <1>8, <1>9, <1>10, <1>11, <1>12, <1>13, Zenon DEF Sections, OrderedAbove

-----------------------------------------------------------------------------
(* Locks: the invariant. *)

\* What is left after the first step of a section.
LEMMA TailDisciplined ==
    ASSUME NEW s \in Seq(LockStep), s # <<>>, Disciplined(s)
    PROVE  /\ Head(s) = s[1] /\ Head(s) \in LockStep
           /\ Tail(s) \in Seq(LockStep) /\ Disciplined(Tail(s))
<1> DEFINE r == Tail(s)
<1>1. /\ Head(s) = s[1] /\ Head(s) \in LockStep /\ r \in Seq(LockStep)
      /\ Len(s) \in Nat \ {0} /\ Len(r) = Len(s) - 1
      /\ \A i \in 1..Len(r) : r[i] = s[i + 1]
      BY HeadTailProperties, EmptySeq
<1> HIDE DEF r
<1>2. ASSUME NEW i \in 1..Len(r), r[i].do = "take"
      PROVE  \E j \in (i + 1)..Len(r) : DroppedAt(r, i, j, r[i].lock)
  <2>1. r[i] = s[i + 1] /\ i + 1 \in 1..Len(s)
        BY <1>1
  <2>2. PICK j \in (i + 2)..Len(s) : DroppedAt(s, i + 1, j, s[i + 1].lock)
        BY <1>1, <1>2, <2>1 DEF Disciplined
  <2>3. /\ j - 1 \in (i + 1)..Len(r) /\ r[j - 1] = s[j]
        /\ \A k \in (i + 1)..(j - 2) : r[k] = s[k + 1] /\ k + 1 \in (i + 2)..(j - 1)
        BY <1>1, <2>2
  <2>4. s[j] = Drop(r[i].lock)
        BY <2>1, <2>2, Zenon DEF DroppedAt
  <2>5. \A k \in (i + 2)..(j - 1) : s[k].do = "take" => LockRank(s[k].lock) > LockRank(r[i].lock)
        BY <2>1, <2>2 DEF DroppedAt
  <2>6. \A k \in (i + 1)..((j - 1) - 1) :
            r[k].do = "take" => LockRank(r[k].lock) > LockRank(r[i].lock)
        BY <2>3, <2>5
  <2>7. DroppedAt(r, i, j - 1, r[i].lock)
        BY <2>3, <2>4, <2>6, Zenon DEF DroppedAt
  <2> QED
        BY <2>3, <2>7, Zenon
<1>3. Disciplined(r)
      BY <1>2, Zenon DEF Disciplined
<1> QED
      BY <1>1, <1>3, Zenon DEF r

\* A drop that is ahead, and is not the first step, is still ahead after that step.
LEMMA TailDrops ==
    ASSUME NEW s \in Seq(LockStep), s # <<>>, NEW lock,
           NEW i \in {0, 1}, NEW j \in (i + 1)..Len(s), j # 1, DroppedAt(s, i, j, lock)
    PROVE  \E m \in 1..Len(Tail(s)) : DroppedAt(Tail(s), 0, m, lock)
<1> DEFINE r == Tail(s)
<1>1. /\ Len(s) \in Nat /\ Len(r) = Len(s) - 1
      /\ \A k \in 1..Len(r) : r[k] = s[k + 1]
      BY HeadTailProperties, EmptySeq, Zenon
<1> HIDE DEF r
<1>2. j - 1 \in 1..Len(r) /\ r[j - 1] = Drop(lock)
      BY <1>1 DEF DroppedAt
<1>3. \A k \in 2..(j - 1) : s[k].do = "take" => LockRank(s[k].lock) > LockRank(lock)
      BY DEF DroppedAt
<1>4. \A k \in 1..((j - 1) - 1) : r[k] = s[k + 1] /\ k + 1 \in 2..(j - 1)
      BY <1>1
<1>5. \A k \in (0 + 1)..((j - 1) - 1) : r[k].do = "take" => LockRank(r[k].lock) > LockRank(lock)
      BY <1>3, <1>4
<1>6. DroppedAt(r, 0, j - 1, lock)
      BY <1>2, <1>5, Zenon DEF DroppedAt
<1> QED
      BY <1>2, <1>6, Zenon DEF r

\* Nobody holds or waits for a lock at first.
LEMMA LocksInitInv == LocksInit => LocksInv
<1> SUFFICES ASSUME LocksInit PROVE LocksInv
    BY Zenon
<1>1. section \in [Thread -> Seq(LockStep)] /\ \A t \in Thread : Disciplined(section[t])
      BY EmptyOrdered, Zenon DEF LocksInit, OrderedAbove
<1> QED
      BY <1>1, Zenon DEF LocksInit, LocksInv

\* Every step of a thread keeps the invariant.
LEMMA LocksNextInv ==
    ASSUME LocksInv, [LocksNext]_lockVars
    PROVE  LocksInv'
<1> DEFINE Held == [by : Thread, lock : Lock, mode : {"read", "write"}]
<1>0. /\ section \in [Thread -> Seq(LockStep)]
      /\ \A t \in Thread : Disciplined(section[t])
      /\ held \subseteq Held
      /\ \A h \in held : \E j \in 1..Len(section[h.by]) : DroppedAt(section[h.by], 0, j, h.lock)
      /\ \A h, k \in held : h.lock = k.lock /\ h # k => h.mode = "read" /\ k.mode = "read"
      /\ waiting \subseteq {q \in Thread \X Lock : Wants(q[1], q[2], "write")}
      BY Zenon DEF LocksInv
<1>1. ASSUME NEW t \in Thread, Enter(t)
      PROVE  LocksInv'
  <2>1. PICK s \in Sections : section' = [section EXCEPT ![t] = s]
        BY <1>1, Zenon DEF Enter
  <2>2. s \in Seq(LockStep) /\ Disciplined(s) /\ section[t] = <<>>
        BY <1>1, SectionsDisciplined, Zenon DEF Enter
  <2>3. held' = held /\ waiting' = waiting
        BY <1>1, Zenon DEF Enter
  <2>4. section' \in [Thread -> Seq(LockStep)] /\ \A u \in Thread : Disciplined(section'[u])
        BY <1>0, <2>1, <2>2, Zenon
  <2>5. \A h \in held : h.by \in Thread /\ h.by # t
        BY <1>0, <2>2, EmptySeq
  <2>6. \A h \in held' : \E j \in 1..Len(section'[h.by]) : DroppedAt(section'[h.by], 0, j, h.lock)
        BY <1>0, <2>1, <2>3, <2>5, Zenon
  <2>7. ASSUME NEW q \in waiting'
        PROVE  q \in Thread \X Lock /\ Wants(q[1], q[2], "write")'
    <3>1. q \in Thread \X Lock /\ Wants(q[1], q[2], "write")
          BY <1>0, <2>3, Zenon
    <3>2. q[1] # t
          BY <2>2, <3>1, Zenon DEF Wants
    <3>3. section'[q[1]] = section[q[1]]
          BY <1>0, <2>1, <3>1, <3>2, Zenon
    <3> QED
          BY <3>1, <3>3, Zenon DEF Wants, Step
  <2> QED
        BY <1>0, <2>3, <2>4, <2>6, <2>7, Zenon DEF LocksInv
<1>2. ASSUME NEW t \in Thread, TakeLock(t)
      PROVE  LocksInv'
  <2> DEFINE s == section[t]
             l == Step(t).lock
             new == [by |-> t, lock |-> l, mode |-> Step(t).mode]
  <2>1. /\ s # <<>> /\ s \in Seq(LockStep) /\ Disciplined(s) /\ Step(t) = s[1]
        /\ Step(t) \in LockStep /\ Tail(s) \in Seq(LockStep) /\ Disciplined(Tail(s))
        BY <1>0, <1>2, TailDisciplined, Zenon DEF TakeLock, Step
  <2>2. /\ Step(t).do = "take" /\ Step(t).mode \in {"read", "write"} /\ l \in Lock
        /\ Step(t) = Take(l, Step(t).mode)
        BY <1>2, <2>1, StepCases, Zenon DEF TakeLock
  <2>3. /\ section' = [section EXCEPT ![t] = Tail(s)]
        /\ held' = held \cup {new}
        /\ waiting' = waiting \ {<<t, l>>}
        BY <1>2, Zenon DEF TakeLock
  <2>4. section' \in [Thread -> Seq(LockStep)] /\ \A u \in Thread : Disciplined(section'[u])
        BY <1>0, <2>1, <2>3, ZenonT(30)
  <2>5. held' \subseteq Held
        BY <1>0, <2>2, <2>3
  <2>6. ASSUME NEW h \in held'
        PROVE  \E j \in 1..Len(section'[h.by]) : DroppedAt(section'[h.by], 0, j, h.lock)
    <3>1. CASE h = new
      <4>1. h.by = t /\ h.lock = l /\ section'[t] = Tail(s)
            BY <1>0, <2>3, <3>1, Zenon
      <4>2. 1 \in 1..Len(s)
            BY <2>1, EmptySeq
      <4>3. PICK j \in (1 + 1)..Len(s) : DroppedAt(s, 1, j, l)
            BY <2>1, <2>2, <4>2, Zenon DEF Disciplined
      <4>4. j # 1 /\ 1 \in {0, 1}
            BY <4>3
      <4>5. \E m \in 1..Len(Tail(s)) : DroppedAt(Tail(s), 0, m, l)
        <5> HIDE DEF s, l
        <5> QED
              BY <2>1, <4>3, <4>4, TailDrops, Zenon
      <4> QED
            BY <4>1, <4>5, Zenon
    <3>2. CASE h \in held /\ h.by = t
      <4>1. PICK j \in (0 + 1)..Len(s) : DroppedAt(s, 0, j, h.lock)
            BY <1>0, <3>2
      <4>2. j # 1
        <5>1. s[j].do = "drop"
              BY <4>1, StepFields, Zenon DEF DroppedAt
        <5> QED
              BY <2>1, <2>2, <5>1, Zenon
      <4>3. \E m \in 1..Len(Tail(s)) : DroppedAt(Tail(s), 0, m, h.lock)
            BY <2>1, <4>1, <4>2, TailDrops, Zenon
      <4> QED
            BY <1>0, <2>3, <3>2, <4>3, Zenon
    <3>3. CASE h \in held /\ h.by # t
          BY <1>0, <2>3, <3>3, ZenonT(30)
    <3> QED
          BY <2>3, <3>1, <3>2, <3>3, Zenon
  <2>7. \A h, k \in held' : h.lock = k.lock /\ h # k => h.mode = "read" /\ k.mode = "read"
    <3>1. \A h \in held : h.lock = l => h.mode = "read" /\ Step(t).mode = "read"
          BY <1>2, <2>2, Zenon DEF TakeLock, Free
    <3> QED
          BY <1>0, <2>3, <3>1
  <2>8. ASSUME NEW q \in waiting'
        PROVE  q \in Thread \X Lock /\ Wants(q[1], q[2], "write")'
    <3>1. q \in Thread \X Lock /\ Wants(q[1], q[2], "write") /\ q # <<t, l>>
          BY <1>0, <2>3, Zenon
    <3>2. q[1] # t
      <4>1. SUFFICES ASSUME q[1] = t PROVE FALSE
            BY Zenon
      <4>2. Step(t).lock = q[2]
            BY <3>1, <4>1, StepFields DEF Wants
      <4> QED
            BY <3>1, <4>1, <4>2
    <3>3. section'[q[1]] = section[q[1]]
          BY <1>0, <2>3, <3>1, <3>2, Zenon
    <3> QED
          BY <3>1, <3>3, Zenon DEF Wants, Step
  <2> QED
        BY <2>4, <2>5, <2>6, <2>7, <2>8, Zenon DEF LocksInv
<1>3. ASSUME NEW t \in Thread, Queue(t)
      PROVE  LocksInv'
  <2>1. /\ section' = section /\ held' = held
        /\ waiting' = waiting \cup {<<t, Step(t).lock>>}
        BY <1>3, Zenon DEF Queue
  <2>2. Step(t) \in LockStep
        BY <1>0, <1>3, TailDisciplined, Zenon DEF Queue, Step
  <2>3. Step(t).lock \in Lock /\ Wants(t, Step(t).lock, "write")
        BY <1>3, <2>2, StepCases, Zenon DEF Queue, Wants
  <2>4. ASSUME NEW q \in waiting'
        PROVE  q \in Thread \X Lock /\ Wants(q[1], q[2], "write")'
        BY <1>0, <2>1, <2>3 DEF Wants, Step
  <2> QED
        BY <1>0, <2>1, <2>4, Zenon DEF LocksInv
<1>4. ASSUME NEW t \in Thread, DropLock(t)
      PROVE  LocksInv'
  <2> DEFINE s == section[t]
             l == Step(t).lock
  <2>1. /\ s # <<>> /\ s \in Seq(LockStep) /\ Step(t) = s[1]
        /\ Step(t) \in LockStep /\ Tail(s) \in Seq(LockStep) /\ Disciplined(Tail(s))
        BY <1>0, <1>4, TailDisciplined, Zenon DEF DropLock, Step
  <2>2. Step(t).do = "drop" /\ Step(t) = Drop(l)
        BY <1>4, <2>1, StepCases, Zenon DEF DropLock
  <2>3. /\ section' = [section EXCEPT ![t] = Tail(s)]
        /\ held' = {h \in held : h.by # t \/ h.lock # l}
        /\ waiting' = waiting
        BY <1>4, Zenon DEF DropLock
  <2>4. section' \in [Thread -> Seq(LockStep)] /\ \A u \in Thread : Disciplined(section'[u])
        BY <1>0, <2>1, <2>3, Zenon
  <2>5. ASSUME NEW h \in held'
        PROVE  \E j \in 1..Len(section'[h.by]) : DroppedAt(section'[h.by], 0, j, h.lock)
    <3>1. CASE h.by = t
      <4>1. PICK j \in (0 + 1)..Len(s) : DroppedAt(s, 0, j, h.lock)
            BY <1>0, <2>3, <3>1
      <4>2. j # 1
        <5>1. s[j] = Drop(h.lock) /\ h.lock # l
              BY <2>3, <3>1, <4>1, Zenon DEF DroppedAt
        <5> QED
              BY <2>1, <2>2, <5>1, StepFields
      <4>3. \E m \in 1..Len(Tail(s)) : DroppedAt(Tail(s), 0, m, h.lock)
            BY <2>1, <4>1, <4>2, TailDrops, Zenon
      <4> QED
            BY <1>0, <2>3, <3>1, <4>3, Zenon
    <3>2. CASE h.by # t
          BY <1>0, <2>3, <3>2, Zenon
    <3> QED
          BY <3>1, <3>2, Zenon
  <2>6. ASSUME NEW q \in waiting'
        PROVE  q \in Thread \X Lock /\ Wants(q[1], q[2], "write")'
    <3>1. q \in Thread \X Lock /\ Wants(q[1], q[2], "write")
          BY <1>0, <2>3, Zenon
    <3>2. q[1] # t
          BY <2>2, <3>1, StepFields DEF Wants
    <3>3. section'[q[1]] = section[q[1]]
          BY <1>0, <2>3, <3>1, <3>2, Zenon
    <3> QED
          BY <3>1, <3>3, Zenon DEF Wants, Step
  <2> QED
        BY <1>0, <2>3, <2>4, <2>5, <2>6, Zenon DEF LocksInv
<1>5. CASE UNCHANGED lockVars
      BY <1>5, Zenon DEF lockVars, LocksInv, Wants, Step
<1> QED
      BY <1>1, <1>2, <1>3, <1>4, <1>5, Zenon DEF LocksNext

\* What is left of every section keeps to the order of the locks, in every reachable state.
THEOREM LocksInductive == LocksSpec => []LocksInv
<1> QED
      BY LocksInitInv, LocksNextInv, PTL DEF LocksSpec

-----------------------------------------------------------------------------
(* Locks: the theorems. *)

\* The locks exclude each other as locks do: a lock that is held for writing is held by one
\* thread alone, and only a thread that wants a lock for writing is waiting for it.
THEOREM LocksTypes == LocksSpec => []LocksTypeOK
<1>1. LocksInv => LocksTypeOK
  <2> SUFFICES ASSUME LocksInv PROVE LocksTypeOK
      BY Zenon
  <2>1. ASSUME NEW t \in Thread, NEW i \in DOMAIN section[t]
        PROVE  section[t][i].do \in {"take", "drop"}
    <3>1. section[t] \in Seq(LockStep)
          BY Zenon DEF LocksInv
    <3>2. section[t][i] \in LockStep
          BY <3>1, LenProperties, ElementOfSeq, Zenon
    <3> QED
          BY <3>2, StepCases, Zenon
  <2> QED
        BY <2>1, Zenon DEF LocksInv, LocksTypeOK
<1> QED
      BY <1>1, LocksInductive, PTL

\* How far in the order a thread that waits is: readers of a lock, writers of it, and then
\* whoever holds it and waits for one that ranks higher.
Place(t) == 2 * LockRank(Step(t).lock) + (IF Step(t).mode = "write" THEN 1 ELSE 0)

Waiting(t) == section[t] # <<>> /\ Step(t).do = "take"

\* A thread that waits for one that waits is behind it.
LEMMA WaitsForHigher ==
    ASSUME LocksInv, NEW t \in Thread, NEW u \in Thread, WaitsFor(t, u), Waiting(u)
    PROVE  Place(t) \in 2..5 /\ Place(u) \in 2..5 /\ Place(u) > Place(t)
<1>1. \A x \in Lock : LockRank(x) \in {1, 2}
      BY Zenon DEF LockRank
<1>2. /\ section[t] \in Seq(LockStep) /\ section[t] # <<>> /\ Disciplined(section[t])
      /\ section[u] \in Seq(LockStep) /\ section[u] # <<>> /\ Disciplined(section[u])
      BY Zenon DEF LocksInv, WaitsFor, Waiting
<1>3. Step(t) \in LockStep /\ Step(u) \in LockStep /\ Step(u) = section[u][1]
      BY <1>2, TailDisciplined, Zenon DEF Step
<1>4. /\ Step(t).lock \in Lock /\ Step(t).mode \in {"read", "write"}
      /\ Step(u).lock \in Lock /\ Step(u).mode \in {"read", "write"}
      BY <1>3, StepCases, Zenon DEF WaitsFor, Waiting
<1>5. Place(t) \in 2..5 /\ Place(u) \in 2..5
      BY <1>1, <1>4 DEF Place
<1>6. CASE \E h \in held : h.by = u /\ h.lock = Step(t).lock
  <2>1. PICK j \in 1..Len(section[u]) : DroppedAt(section[u], 0, j, Step(t).lock)
        BY <1>6, Zenon DEF LocksInv
  <2>2. j # 1
    <3>1. section[u][j].do = "drop"
          BY <2>1, StepFields, Zenon DEF DroppedAt
    <3> QED
          BY <1>3, <3>1, Zenon DEF Waiting
  <2>3. LockRank(Step(u).lock) > LockRank(Step(t).lock)
    <3>1. 1 \in (0 + 1)..(j - 1)
          BY <1>2, <2>2, LenProperties
    <3> QED
          BY <1>3, <2>1, <3>1, Zenon DEF DroppedAt, Waiting
  <2> QED
        BY <1>1, <1>4, <1>5, <2>3 DEF Place
<1>7. CASE <<u, Step(t).lock>> \in waiting /\ Step(t).mode = "read"
  <2>1. Step(u) = Take(Step(t).lock, "write")
        BY <1>7, Zenon DEF LocksInv, Wants
  <2>2. Step(u).lock = Step(t).lock /\ Step(u).mode = "write"
        BY <2>1, StepFields
  <2> QED
        BY <1>1, <1>4, <1>5, <1>7, <2>2 DEF Place
<1> QED
      BY <1>6, <1>7, Zenon DEF WaitsFor

\* However many threads run the sections of the library, and however they interleave, none
\* ever wait for each other in a circle: the threads of every group include one that waits
\* for nobody in the group.
THEOREM LocksNoCircularWait == LocksSpec => []NoCircularWait
<1>1. ASSUME LocksInv
      PROVE  NoCircularWait
  <2>1. SUFFICES ASSUME NEW s \in (SUBSET Thread) \ {{}},
                        \A t \in s : \E u \in s : WaitsFor(t, u)
                 PROVE  FALSE
        BY Zenon DEF NoCircularWait
  <2>2. \A t \in s : t \in Thread /\ Waiting(t)
        BY <2>1, Zenon DEF WaitsFor, Waiting
  <2>3. \A t \in s : \E u \in s : Place(t) \in 2..5 /\ Place(u) \in 2..5 /\ Place(u) > Place(t)
        BY <1>1, <2>1, <2>2, WaitsForHigher, Zenon
  <2>4. \A t \in s : Place(t) # 5
        BY <2>3
  <2>5. \A t \in s : Place(t) # 4
        BY <2>3, <2>4
  <2>6. \A t \in s : Place(t) # 3
        BY <2>3, <2>4, <2>5
  <2>7. \A t \in s : Place(t) # 2
        BY <2>3, <2>4, <2>5, <2>6
  <2> QED
        BY <2>1, <2>3, <2>4, <2>5, <2>6, <2>7
<1>2. LocksInv => NoCircularWait
      BY <1>1, Zenon
<1> QED
      BY <1>2, LocksInductive, PTL

=============================================================================
