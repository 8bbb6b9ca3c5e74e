---------------------------- MODULE PingerProofs ----------------------------
(***************************************************************************)
(* Theorems about module Pinger, for any capacity of the channel, any       *)
(* number of retries, and any number of epochs, starts and late             *)
(* transactions.                                                            *)
(***************************************************************************)
EXTENDS Pinger, TLAPS

(* What a message adds to the channel.                                      *)
LEMMA Sending ==
  ASSUME NEW S, NEW q \in Seq(S), NEW m \in S
  PROVE  /\ Append(q, m) \in Seq(S) /\ Len(Append(q, m)) = Len(q) + 1
         /\ ToSet(Append(q, m)) = ToSet(q) \cup {m}
<1> DEFINE p == Append(q, m)
<1>1. /\ p \in Seq(S) /\ Len(q) \in Nat /\ Len(p) = Len(q) + 1
      /\ p[Len(q) + 1] = m /\ \A i \in 1..Len(q) : p[i] = q[i]
      /\ DOMAIN p = 1..(Len(q) + 1) /\ DOMAIN q = 1..Len(q)
  OBVIOUS
<1> HIDE DEF p
<1>2. DOMAIN p = DOMAIN q \cup {Len(q) + 1}
  BY <1>1
<1>3. ToSet(p) = ToSet(q) \cup {m}
  BY <1>1, <1>2 DEF ToSet
<1> QED
  BY <1>1, <1>3 DEF p

(* What the first message leaves in it.                                     *)
LEMMA Receiving ==
  ASSUME NEW S, NEW q \in Seq(S), q # <<>>
  PROVE  /\ Head(q) \in S /\ Tail(q) \in Seq(S) /\ Len(Tail(q)) = Len(q) - 1
         /\ ToSet(q) = {Head(q)} \cup ToSet(Tail(q))
         /\ ToSet(q) \subseteq S
<1>1. /\ Len(q) \in Nat \ {0} /\ Head(q) = q[1] /\ Head(q) \in S
      /\ Tail(q) \in Seq(S) /\ Len(Tail(q)) = Len(q) - 1
      /\ \A i \in 1..(Len(q) - 1) : Tail(q)[i] = q[i + 1]
  OBVIOUS
<1>2. ASSUME NEW x \in ToSet(q) PROVE x \in {Head(q)} \cup ToSet(Tail(q))
  <2>1. PICK i \in 1..Len(q) : x = q[i]
    BY DEF ToSet
  <2>2. CASE i = 1
    BY <1>1, <2>1, <2>2
  <2>3. CASE i > 1
    <3>1. PICK j \in 1..(Len(q) - 1) : i = j + 1
      BY <1>1, <2>1, <2>3
    <3>2. Tail(q)[j] = x
      BY <1>1, <2>1, <3>1
    <3>3. j \in DOMAIN Tail(q)
      BY <1>1
    <3> QED BY <3>2, <3>3 DEF ToSet
  <2> QED BY <2>1, <2>2, <2>3
<1>3. ToSet(Tail(q)) \subseteq ToSet(q) /\ Head(q) \in ToSet(q)
  BY <1>1 DEF ToSet
<1>4. ToSet(q) \subseteq S
  BY DEF ToSet
<1> QED
  BY <1>1, <1>2, <1>3, <1>4

-----------------------------------------------------------------------------
(* The invariant.                                                           *)

Known == 1..chain.epoch

(* Rewards of epochs that have begun, after the last recognised one.        *)
ChainGood ==
  /\ chain.last_epoch_synced <= chain.epoch
  /\ \A r \in chain.unsynced : chain.last_epoch_synced < r /\ r <= chain.epoch

(* The daemon knows of no epoch that has not begun.                         *)
EpochsKnown ==
  /\ Pending \subseteq Known
  /\ history.pinged \subseteq Known
  /\ watcher.stream <= chain.epoch
  /\ watcher.phase = "sending" => watcher.current \in Known

(* A Shutdown is the last message of a watcher that has left its loop.      *)
ShutdownLast ==
  \A i \in 1..Len(channel) :
    channel[i] = Shutdown => i = Len(channel) /\ watcher.phase = "done"

(* The tasks begin and end together, and the sender ends with nothing left. *)
TasksGood ==
  /\ watcher.phase = "down" <=> sender.phase = "down"
  /\ sender.phase \in {"down", "receiving", "done"} <=> sender.epoch = None
  /\ sender.phase \in {"down", "done"} => channel = <<>>
  /\ sender.phase = "done" => watcher.phase = "done"

(* What PingedIsSynced says of an epoch, before it is counted as pinged.    *)
SucceededIsSynced ==
  sender.phase = "succeeded" => \A r \in chain.unsynced : r > sender.epoch

(* The watcher reads forward: it is never behind the last epoch announced.  *)
Forward ==
  /\ file <= chain.epoch /\ watcher.epoch_id <= chain.epoch
  /\ watcher.stream # None => watcher.epoch_id <= watcher.stream
  /\ watcher.phase = "down" => watcher.stream = None
  /\ watcher.phase = "sending" =>
       watcher.current = watcher.stream /\ watcher.current # watcher.epoch_id

(* What keeps an announced epoch from being announced again: it is the last *)
(* one the process or the file knows, or no block of it will be read.       *)
LastKnown == IF watcher.phase = "down" THEN file ELSE watcher.epoch_id

NextRead == IF watcher.stream = None THEN chain.epoch ELSE watcher.stream

AnnouncedOnce ==
  \A e \in (Pending \cup Over) \ history.unsaved : e <= LastKnown \/ e < NextRead

IInv ==
  /\ Forward /\ AnnouncedOnce
  /\ TypeOK /\ ChainGood /\ EpochsKnown /\ ShutdownLast /\ TasksGood
  /\ SavedWasSent /\ SucceededIsSynced /\ PingedIsSynced

(* What the invariant says of every part of the state.                      *)
LEMMA Fields ==
  ASSUME IInv
  PROVE  /\ chain.epoch \in Epochs /\ chain.last_epoch_synced \in 0..MaxEpoch
         /\ Known \subseteq Epochs /\ Epochs \subseteq 0..MaxEpoch
         /\ None \in 0..MaxEpoch /\ 0 \in 0..MaxRetries
         /\ watcher.epoch_id \in 0..MaxEpoch /\ watcher.stream \in 0..MaxEpoch
         /\ watcher.current \in 0..MaxEpoch /\ sender.epoch \in 0..MaxEpoch
         /\ sender.attempts \in 0..MaxRetries
         /\ Pending \subseteq Epochs
<1>1. /\ chain.epoch \in Epochs /\ chain.last_epoch_synced \in 0..MaxEpoch
      /\ watcher.epoch_id \in 0..MaxEpoch /\ watcher.stream \in 0..MaxEpoch
      /\ watcher.current \in 0..MaxEpoch /\ sender.epoch \in 0..MaxEpoch
      /\ sender.attempts \in 0..MaxRetries
  BY DEF IInv, TypeOK, ChainStates, Watchers, Senders
<1>2. /\ Known \subseteq Epochs /\ Epochs \subseteq 0..MaxEpoch
      /\ None \in 0..MaxEpoch /\ 0 \in 0..MaxRetries
  BY <1>1, PingerAssumption DEF Known, Epochs, None
<1>3. Pending \subseteq Epochs
  BY <1>2 DEF IInv, EpochsKnown
<1> QED
  BY <1>1, <1>2, <1>3

(* A message sent is in the channel after those sent before it.             *)
LEMMA Sent ==
  ASSUME IInv, NEW m \in 0..MaxEpoch, channel' = Append(channel, m)
  PROVE  /\ channel' \in Seq(0..MaxEpoch) /\ Len(channel') = Len(channel) + 1
         /\ ToSet(channel') = ToSet(channel) \cup {m}
<1> DEFINE S == 0..MaxEpoch
<1>1. channel \in Seq(S) /\ m \in S
  BY DEF IInv, TypeOK
<1> HIDE DEF S
<1>2. Append(channel, m) \in Seq(S) /\ Len(Append(channel, m)) = Len(channel) + 1
  BY <1>1
<1>3. ToSet(Append(channel, m)) = ToSet(channel) \cup {m}
  BY <1>1, Sending
<1> QED
  BY <1>2, <1>3 DEF S

(* What the two messages and their receipt do to the pending epochs.        *)
LEMMA AnnouncedPending ==
  ASSUME IInv, SendEpochChanged
  PROVE  Pending' = Pending \cup {watcher.current} /\ watcher.current \in Known
<1>1. ToSet(channel') = ToSet(channel) \cup {watcher.current}
  BY Fields, Sent DEF SendEpochChanged
<1>2. watcher.current \in Known /\ watcher.current # None
  BY DEF SendEpochChanged, Watcher, IInv, EpochsKnown, Known, None
<1> QED
  BY <1>1, <1>2 DEF SendEpochChanged, Pending

(* The shutdown message announces no epoch.                                 *)
LEMMA ShutdownPending ==
  ASSUME IInv, SendShutdown
  PROVE  Pending' = Pending
<1>1. ToSet(channel') = ToSet(channel) \cup {None}
  BY Fields, Sent DEF SendShutdown, Shutdown
<1> QED
  BY <1>1 DEF SendShutdown, Pending

(* The first message received is announced no more.                         *)
LEMMA ReceivedPending ==
  ASSUME IInv, Receive
  PROVE  Pending' = Pending
<1>1. ToSet(channel) = {Head(channel)} \cup ToSet(channel')
  BY Receiving DEF Receive, IInv, TypeOK
<1>2. sender.epoch = None
  BY DEF Receive, IInv, TasksGood
<1>3. sender'.epoch = Head(channel)
  BY <1>2 DEF Receive, IInv, TypeOK, Senders, Shutdown
<1> QED
  BY <1>1, <1>2, <1>3 DEF Pending

(* A new epoch earns rewards and announces nothing.                         *)
LEMMA NextEpochInv ==
  ASSUME IInv, NextEpoch
  PROVE  IInv'
<1>1. chain' \in ChainStates
  <2>1. chain.epoch + 1 \in Epochs
    BY Fields, PingerAssumption DEF NextEpoch, Epochs
  <2> QED BY <2>1 DEF NextEpoch, IInv, TypeOK, ChainStates
<1>2. TypeOK'
  BY <1>1, PingerAssumption DEF NextEpoch, IInv, TypeOK, Epochs, None
<1>3. ChainGood'
  BY DEF NextEpoch, IInv, TypeOK, Epochs, ChainStates, ChainGood
<1>4. EpochsKnown'
  BY SMTT(20)
     DEF NextEpoch, IInv, TypeOK, Epochs, Known, ChainStates, Watchers, EpochsKnown, Pending
<1>5. SucceededIsSynced'
  BY DEF NextEpoch, IInv, TypeOK, Epochs, None, Known, ChainStates, Senders,
       SucceededIsSynced, EpochsKnown, Pending
<1>6. PingedIsSynced'
  BY DEF NextEpoch, IInv, TypeOK, Epochs, Known, ChainStates, PingedIsSynced, EpochsKnown
<1>7. ShutdownLast' /\ TasksGood' /\ SavedWasSent'
  BY DEF NextEpoch, IInv, ShutdownLast, TasksGood, SavedWasSent, Pending, Over
<1>8. Forward'
  BY Fields DEF NextEpoch, IInv, Forward, TypeOK, ChainStates, Watchers
<1>9. AnnouncedOnce'
  BY Fields DEF NextEpoch, IInv, AnnouncedOnce, LastKnown, NextRead, Pending, Over,
       TypeOK, Histories
<1> QED
  BY <1>1, <1>2, <1>3, <1>4, <1>5, <1>6, <1>7, <1>8, <1>9 DEF IInv

(* A deficit begins or ends: rewards wait, none is lost.                    *)
LEMMA DeficitChangesInv ==
  ASSUME IInv, DeficitChanges
  PROVE  IInv'
<1>1. chain' \in ChainStates
  BY PingerAssumption DEF DeficitChanges, IInv, TypeOK, ChainStates, Watchers, Senders
<1>2. TypeOK'
  BY <1>1, PingerAssumption DEF DeficitChanges, IInv, TypeOK, Epochs, None
<1>3. ChainGood'
  BY DEF DeficitChanges, IInv, ChainGood
<1>4. EpochsKnown'
  BY DEF DeficitChanges, IInv, Known, EpochsKnown, Pending
<1>5. SucceededIsSynced'
  BY DEF DeficitChanges, IInv, SucceededIsSynced
<1>6. PingedIsSynced'
  BY DEF DeficitChanges, IInv, PingedIsSynced
<1>7. ShutdownLast' /\ TasksGood' /\ SavedWasSent'
  BY DEF DeficitChanges, IInv, ShutdownLast, TasksGood, SavedWasSent, Pending, Over
<1>8. Forward'
  BY Fields DEF DeficitChanges, IInv, Forward
<1>9. AnnouncedOnce'
  BY Fields DEF DeficitChanges, IInv, AnnouncedOnce, LastKnown, NextRead, Pending, Over
<1> QED
  BY <1>1, <1>2, <1>3, <1>4, <1>5, <1>6, <1>7, <1>8, <1>9 DEF IInv

(* A ping that timed out is executed after all.                             *)
LEMMA LateExecutedInv ==
  ASSUME IInv, LateExecuted
  PROVE  IInv'
<1>1. chain' \in ChainStates
  <2>1. chain.epoch \in 0..MaxEpoch
    BY Fields
  <2> QED BY <2>1 DEF LateExecuted, Synced, IInv, TypeOK, ChainStates
<1>2. TypeOK'
  BY <1>1, PingerAssumption DEF LateExecuted, Synced, AlreadySynced, IInv, TypeOK,
       Epochs, None
<1>3. ChainGood'
  BY DEF LateExecuted, Synced, AlreadySynced, IInv, TypeOK, Epochs, ChainStates, ChainGood
<1>4. EpochsKnown'
  BY DEF LateExecuted, Synced, AlreadySynced, IInv, Known, EpochsKnown, Pending
<1>5. SucceededIsSynced'
  BY DEF LateExecuted, Synced, AlreadySynced, IInv, SucceededIsSynced
<1>6. PingedIsSynced'
  BY DEF LateExecuted, Synced, AlreadySynced, IInv, PingedIsSynced
<1>7. ShutdownLast' /\ TasksGood' /\ SavedWasSent'
  BY DEF LateExecuted, IInv, ShutdownLast, TasksGood, SavedWasSent, Pending, Over
<1>8. Forward'
  BY Fields DEF LateExecuted, Synced, AlreadySynced, IInv, Forward
<1>9. AnnouncedOnce'
  BY Fields DEF LateExecuted, Synced, IInv, AnnouncedOnce, LastKnown, NextRead,
       Pending, Over
<1> QED
  BY <1>1, <1>2, <1>3, <1>4, <1>5, <1>6, <1>7, <1>8, <1>9 DEF IInv

(* A crash loses the channel and keeps the file.                            *)
LEMMA CrashInv ==
  ASSUME IInv, Crash
  PROVE  IInv'
<1>1. watcher' \in Watchers
  BY PingerAssumption DEF Crash, Ended, Down, None, Watchers
<1>2. sender' \in Senders
  BY PingerAssumption DEF Crash, Ended, Off, None, Senders
<1>3. history' \in Histories
  <2>1. history' = Ended(file')
    BY DEF Crash
  <2>2. (Pending \cup {watcher.epoch_id}) \ {None, file'} \subseteq Epochs
    BY Fields DEF Epochs, None
  <2> QED BY Fields, <2>1, <2>2 DEF Ended, IInv, TypeOK, Histories
<1>4. TypeOK'
  BY <1>1, <1>2, <1>3, PingerAssumption DEF Crash, IInv, TypeOK, None
<1>5. EpochsKnown'
  <2>1. Pending' = {} /\ watcher'.phase # "sending" /\ watcher'.stream = None /\ chain' = chain
    BY DEF Crash, Pending, Down, Off, ToSet
  <2>2. history'.pinged = history.pinged
    BY DEF Crash, Ended, IInv
  <2> QED BY Fields, <2>1, <2>2 DEF IInv, EpochsKnown, Known, Epochs, None
<1>6. ShutdownLast'
  BY DEF Crash, Ended, Running, Down, Off, IInv, ShutdownLast
<1>7. TasksGood'
  BY DEF Crash, Ended, Running, Down, Off, IInv, TasksGood
<1>8. SavedWasSent'
  BY DEF Crash, Ended, Down, IInv, SavedWasSent, Over
<1>9. SucceededIsSynced'
  BY DEF Crash, Ended, Running, Down, Off, IInv, SucceededIsSynced
<1>10. PingedIsSynced'
  BY DEF Crash, Ended, Running, Down, Off, IInv, PingedIsSynced
<1>11. ChainGood'
  BY DEF Crash, IInv, ChainGood
<1>12. Forward'
  BY Fields DEF Crash, Down, IInv, Forward, None
<1>13. AnnouncedOnce'
  <2>1. /\ Pending' = {} /\ chain' = chain /\ watcher.phase # "down"
        /\ LastKnown' = file' /\ NextRead' = chain.epoch
    BY DEF Crash, Running, Pending, Down, Off, ToSet, LastKnown, NextRead
  <2>2. /\ Over' = Over \cup Pending
        /\ history'.unsaved =
             history.unsaved \cup ((Pending \cup {watcher.epoch_id}) \ {None, file'})
    BY DEF Crash, Ended, Over, IInv, TypeOK, Histories
  <2>3. SUFFICES ASSUME NEW e \in (Over \cup Pending) \ history'.unsaved
                 PROVE  e <= file' \/ e < chain.epoch
    BY <2>1, <2>2 DEF AnnouncedOnce
  <2>4. e <= watcher.epoch_id \/ e < NextRead
    BY <2>1, <2>2, <2>3 DEF IInv, AnnouncedOnce, LastKnown
  <2>5. NextRead <= chain.epoch /\ NextRead \in Nat
    BY Fields DEF NextRead, IInv, EpochsKnown, Epochs
  <2>6. e \in Epochs /\ chain.epoch \in Nat /\ watcher.epoch_id <= chain.epoch
    BY Fields DEF IInv, TypeOK, Histories, Over, Epochs, Forward
  <2>7. CASE e = watcher.epoch_id
    <3>1. e = file'
      BY <2>2, <2>3, <2>6, <2>7 DEF Epochs, None
    <3> QED BY <2>6, <3>1 DEF Epochs
  <2>8. CASE e # watcher.epoch_id
    BY Fields, <2>4, <2>5, <2>6, <2>8 DEF Epochs
  <2> QED BY <2>7, <2>8
<1> QED
  BY <1>1, <1>2, <1>3, <1>4, <1>5, <1>6, <1>7, <1>8, <1>9, <1>10, <1>11, <1>12,
       <1>13 DEF IInv

(* A signal only marks that it has to be heeded.                            *)
LEMMA SignalInv ==
  ASSUME IInv, Signal
  PROVE  IInv'
<1>1. watcher' \in Watchers
  BY PingerAssumption DEF Signal, Running, IInv, TypeOK, Watchers, ChainStates, Senders
<1>2. TypeOK'
  BY <1>1, PingerAssumption DEF Signal, Running, IInv, TypeOK, Epochs, None
<1>3. EpochsKnown'
  BY DEF Signal, Running, IInv, Known, EpochsKnown, Pending
<1>4. ShutdownLast'
  BY DEF Signal, Running, IInv, ShutdownLast
<1>5. TasksGood'
  BY DEF Signal, Running, IInv, TasksGood
<1>6. SavedWasSent'
  BY DEF Signal, Running, IInv, SavedWasSent, Pending, Over
<1>7. ChainGood' /\ SucceededIsSynced' /\ PingedIsSynced'
  BY DEF Signal, IInv, ChainGood, SucceededIsSynced, PingedIsSynced
<1>8. Forward'
  BY Fields DEF Signal, Running, IInv, Forward
<1>9. AnnouncedOnce'
  BY Fields DEF Signal, IInv, AnnouncedOnce, LastKnown, NextRead, Pending, Over
<1> QED
  BY <1>1, <1>2, <1>3, <1>4, <1>5, <1>6, <1>7, <1>8, <1>9 DEF IInv

(* A start reads the file, with nothing in the channel.                     *)
LEMMA StartInv ==
  ASSUME IInv, Start
  PROVE  IInv'
<1>1. watcher' \in Watchers
  BY Fields DEF Start, Loaded, Down, Watchers, IInv, TypeOK
<1>2. sender' \in Senders
  BY Fields DEF Start, Off, Senders
<1>3. TypeOK'
  BY <1>1, <1>2, PingerAssumption DEF Start, Loaded, Running, Down, Off, IInv, TypeOK
<1>4. EpochsKnown'
  <2>1. Pending' = {} /\ watcher'.phase # "sending" /\ watcher'.stream = None /\ chain' = chain
    BY DEF Start, Pending, Down, Off, ToSet
  <2>2. history'.pinged = history.pinged
    BY DEF Start, IInv, TypeOK, Histories
  <2> QED BY Fields, <2>1, <2>2 DEF IInv, EpochsKnown, Known, Epochs, None
<1>5. ShutdownLast'
  BY DEF Start, Loaded, Running, Down, Off, IInv, ShutdownLast
<1>6. TasksGood'
  BY DEF Start, Loaded, Running, Down, Off, IInv, TasksGood
<1>7. SavedWasSent'
  BY DEF Start, Loaded, Running, Down, IInv, SavedWasSent, Pending, Over, TasksGood
<1>8. SucceededIsSynced'
  BY DEF Start, Loaded, Running, Down, Off, IInv, SucceededIsSynced
<1>9. ChainGood' /\ PingedIsSynced'
  BY DEF Start, IInv, ChainGood, PingedIsSynced
<1>10. Forward'
  BY Fields DEF Start, Loaded, Running, Down, Off, IInv, Forward
<1>11. AnnouncedOnce'
  BY Fields DEF Start, Loaded, Running, Down, Off, IInv, AnnouncedOnce, Forward,
       EpochsKnown, TasksGood, LastKnown, NextRead, Pending, Over
<1> QED
  BY <1>1, <1>2, <1>3, <1>4, <1>5, <1>6, <1>7, <1>8, <1>9, <1>10, <1>11 DEF IInv

(* The process ends when both of its tasks have.                            *)
LEMMA ExitInv ==
  ASSUME IInv, Exit
  PROVE  IInv'
<1>1. watcher' \in Watchers
  BY PingerAssumption DEF Exit, Down, None, Watchers
<1>2. sender' \in Senders
  BY PingerAssumption DEF Exit, Off, None, Senders
<1>3. history' \in Histories
  <2>1. history' = Ended(file)
    BY DEF Exit
  <2>2. (Pending \cup {watcher.epoch_id}) \ {None, file} \subseteq Epochs
    BY Fields DEF Epochs, None
  <2> QED BY Fields, <2>1, <2>2 DEF Ended, IInv, TypeOK, Histories
<1>4. TypeOK'
  BY <1>1, <1>2, <1>3, PingerAssumption DEF Exit, Ended, Down, Off, IInv, TypeOK
<1>5. EpochsKnown'
  <2>1. Pending' = {} /\ watcher'.phase # "sending" /\ watcher'.stream = None /\ chain' = chain
    BY DEF Exit, Pending, Down, Off, ToSet
  <2>2. history'.pinged = history.pinged
    BY DEF Exit, Ended, IInv
  <2> QED BY Fields, <2>1, <2>2 DEF IInv, EpochsKnown, Known, Epochs, None
<1>6. ShutdownLast'
  BY DEF Exit, Ended, Down, Off, IInv, ShutdownLast
<1>7. TasksGood'
  BY DEF Exit, Ended, Down, Off, IInv, TasksGood
<1>8. SavedWasSent'
  BY DEF Exit, Ended, Down, IInv, SavedWasSent, Over
<1>9. SucceededIsSynced'
  BY DEF Exit, Ended, Down, Off, IInv, SucceededIsSynced
<1>10. PingedIsSynced'
  BY DEF Exit, Ended, Down, Off, IInv, PingedIsSynced
<1>11. ChainGood'
  BY DEF Exit, IInv, ChainGood
<1>12. Forward'
  BY Fields DEF Exit, Down, IInv, Forward, None
<1>13. AnnouncedOnce'
  BY Fields DEF Exit, Ended, Down, Off, IInv, AnnouncedOnce, Forward, EpochsKnown,
       ChainGood, TasksGood, LastKnown, NextRead, Pending, Over, TypeOK, Histories, None
<1> QED
  BY <1>1, <1>2, <1>3, <1>4, <1>5, <1>6, <1>7, <1>8, <1>9, <1>10, <1>11, <1>12,
       <1>13 DEF IInv

(* The watcher reads on from the chain's present block.                     *)
LEMMA ConnectInv ==
  ASSUME IInv, Connect
  PROVE  IInv'
<1>1. watcher' \in Watchers
  BY Fields DEF Connect, Watchers, IInv, TypeOK
<1>2. TypeOK'
  BY <1>1, PingerAssumption DEF Connect, Watcher, IInv, TypeOK
<1>3. EpochsKnown'
  BY DEF Connect, Watcher, IInv, TypeOK, Epochs, Known, ChainStates, EpochsKnown, Pending
<1>4. ShutdownLast'
  BY DEF Connect, Watcher, IInv, ShutdownLast
<1>5. TasksGood'
  BY DEF Connect, Watcher, IInv, TasksGood
<1>6. SavedWasSent'
  BY DEF Connect, Watcher, IInv, SavedWasSent, Pending, Over
<1>7. ChainGood' /\ SucceededIsSynced' /\ PingedIsSynced'
  BY DEF Connect, IInv, ChainGood, SucceededIsSynced, PingedIsSynced
<1>8. Forward'
  BY Fields DEF Connect, Watcher, IInv, Forward
<1>9. AnnouncedOnce'
  BY Fields DEF Connect, IInv, AnnouncedOnce, LastKnown, NextRead, Pending, Over
<1> QED
  BY <1>1, <1>2, <1>3, <1>4, <1>5, <1>6, <1>7, <1>8, <1>9 DEF IInv

(* A stream that fails sends the watcher to connect again.                  *)
LEMMA StreamFailsInv ==
  ASSUME IInv, StreamFails
  PROVE  IInv'
<1>1. watcher' \in Watchers
  BY Fields DEF StreamFails, Watchers, IInv, TypeOK
<1>2. TypeOK'
  BY <1>1, PingerAssumption DEF StreamFails, Watcher, IInv, TypeOK
<1>3. EpochsKnown'
  BY DEF StreamFails, Watcher, IInv, TypeOK, Epochs, None, Known, ChainStates,
       EpochsKnown, Pending
<1>4. ShutdownLast'
  BY DEF StreamFails, Watcher, IInv, ShutdownLast
<1>5. TasksGood'
  BY DEF StreamFails, Watcher, IInv, TasksGood
<1>6. SavedWasSent'
  BY DEF StreamFails, Watcher, IInv, SavedWasSent, Pending, Over
<1>7. ChainGood' /\ SucceededIsSynced' /\ PingedIsSynced'
  BY DEF StreamFails, IInv, ChainGood, SucceededIsSynced, PingedIsSynced
<1>8. Forward'
  BY Fields DEF StreamFails, Watcher, IInv, Forward
<1>9. AnnouncedOnce'
  BY Fields, SMTT(20) DEF StreamFails, Watcher, IInv, AnnouncedOnce, Forward, EpochsKnown,
       ChainGood, LastKnown, NextRead, Pending, Over, TypeOK, Histories
<1> QED
  BY <1>1, <1>2, <1>3, <1>4, <1>5, <1>6, <1>7, <1>8, <1>9 DEF IInv

(* A block that can be read shows an epoch not yet announced.               *)
LEMMA GoodBlockInv ==
  ASSUME IInv, GoodBlock
  PROVE  IInv'
<1>1. watcher' \in Watchers
  <2>1. Arriving \subseteq 0..MaxEpoch
    BY Fields DEF Arriving, Known
  <2> QED BY <2>1 DEF GoodBlock, BlockRead, Watchers, IInv, TypeOK
<1>2. TypeOK'
  BY <1>1, PingerAssumption DEF GoodBlock, Watcher, BlockRead, Arriving, IInv, TypeOK
<1>3. EpochsKnown'
  BY DEF GoodBlock, BlockRead, Arriving, IInv, Known, EpochsKnown, Pending
<1>4. ShutdownLast'
  BY DEF GoodBlock, Watcher, BlockRead, Arriving, IInv, ShutdownLast
<1>5. TasksGood'
  BY DEF GoodBlock, Watcher, BlockRead, Arriving, IInv, TasksGood
<1>6. SavedWasSent'
  BY DEF GoodBlock, BlockRead, IInv, SavedWasSent, Pending, Over
<1>7. ChainGood' /\ SucceededIsSynced' /\ PingedIsSynced'
  BY DEF GoodBlock, IInv, ChainGood, SucceededIsSynced, PingedIsSynced
<1>8. Forward'
  BY Fields DEF GoodBlock, Watcher, BlockRead, Arriving, IInv, Forward
<1>9. AnnouncedOnce'
  BY Fields DEF GoodBlock, Watcher, BlockRead, Arriving, IInv, AnnouncedOnce, Forward,
       EpochsKnown, ChainGood, LastKnown, NextRead, Pending, Over, TypeOK, Histories
<1> QED
  BY <1>1, <1>2, <1>3, <1>4, <1>5, <1>6, <1>7, <1>8, <1>9 DEF IInv

(* A block that cannot be read only moves the stream.                       *)
LEMMA BadBlockInv ==
  ASSUME IInv, BadBlock
  PROVE  IInv'
<1>1. watcher' \in Watchers
  <2>1. Arriving \subseteq 0..MaxEpoch
    BY Fields DEF Arriving, Known
  <2> QED BY <2>1 DEF BadBlock, Watchers, IInv, TypeOK
<1>2. TypeOK'
  BY <1>1, PingerAssumption DEF BadBlock, Watcher, Arriving, IInv, TypeOK
<1>3. EpochsKnown'
  BY DEF BadBlock, Watcher, Arriving, IInv, Known, EpochsKnown, Pending
<1>4. ShutdownLast'
  BY DEF BadBlock, Watcher, Arriving, IInv, ShutdownLast
<1>5. TasksGood'
  BY DEF BadBlock, Watcher, Arriving, IInv, TasksGood
<1>6. SavedWasSent'
  BY DEF BadBlock, Watcher, Arriving, IInv, SavedWasSent, Pending, Over
<1>7. ChainGood' /\ SucceededIsSynced' /\ PingedIsSynced'
  BY DEF BadBlock, IInv, ChainGood, SucceededIsSynced, PingedIsSynced
<1>8. Forward'
  BY Fields DEF BadBlock, Watcher, Arriving, IInv, Forward
<1>9. AnnouncedOnce'
  BY Fields, SMTT(20) DEF BadBlock, Watcher, Arriving, IInv, AnnouncedOnce, Forward, EpochsKnown,
       ChainGood, LastKnown, NextRead, Pending, Over, TypeOK, Histories
<1> QED
  BY <1>1, <1>2, <1>3, <1>4, <1>5, <1>6, <1>7, <1>8, <1>9 DEF IInv

(* An epoch is announced before its id is saved.                            *)
LEMMA SendEpochChangedInv ==
  ASSUME IInv, SendEpochChanged
  PROVE  IInv'
<1>1. watcher' \in Watchers
  BY Fields DEF SendEpochChanged, Watchers, IInv, TypeOK
<1>2. TypeOK'
  <2>1. channel' \in Seq(0..MaxEpoch) /\ Len(channel') = Len(channel) + 1
    BY Fields, Sent DEF SendEpochChanged
  <2>2. Len(channel') <= Capacity
    BY <2>1, PingerAssumption DEF SendEpochChanged, IInv, TypeOK
  <2> QED BY <1>1, <2>1, <2>2 DEF SendEpochChanged, IInv, TypeOK
<1>3. EpochsKnown'
  <2>1. watcher'.phase = "saving" /\ watcher'.stream = watcher.stream
    BY DEF SendEpochChanged, IInv, TypeOK, Watchers
  <2> QED BY AnnouncedPending, <2>1 DEF SendEpochChanged, IInv, EpochsKnown, Known
<1>4. ShutdownLast'
  BY DEF SendEpochChanged, Watcher, IInv, None, Shutdown, Known, ShutdownLast, EpochsKnown
<1>5. TasksGood'
  BY DEF SendEpochChanged, Watcher, IInv, TasksGood
<1>6. SavedWasSent'
  <2>1. watcher'.epoch_id = watcher.current
    BY DEF SendEpochChanged, IInv, TypeOK, Watchers
  <2> QED BY AnnouncedPending, <2>1 DEF SendEpochChanged, IInv, SavedWasSent, Over
<1>7. ChainGood' /\ SucceededIsSynced' /\ PingedIsSynced'
  BY DEF SendEpochChanged, IInv, ChainGood, SucceededIsSynced, PingedIsSynced
<1>8. Forward'
  BY Fields DEF SendEpochChanged, Watcher, IInv, Forward, EpochsKnown
<1>9. AnnouncedOnce'
  <2>1. /\ watcher.phase = "sending" /\ watcher'.phase = "saving"
        /\ watcher'.epoch_id = watcher.current /\ watcher'.stream = watcher.stream
        /\ UNCHANGED <<chain, file, history>>
    BY DEF SendEpochChanged, Watcher, IInv
  <2>2. watcher.current = watcher.stream /\ watcher.current # None
    BY <2>1 DEF IInv, Forward, EpochsKnown, Known, None
  <2>3. watcher.epoch_id <= watcher.current
    BY <2>2 DEF IInv, Forward
  <2>4. ASSUME NEW e \in (Pending \cup Over) \ history.unsaved
        PROVE  e <= watcher.current
    <3>1. e <= watcher.epoch_id \/ e < watcher.stream
      BY <2>1, <2>2 DEF IInv, AnnouncedOnce, LastKnown, NextRead
    <3>2. e \in Epochs
      BY Fields DEF IInv, TypeOK, Histories, Over
    <3> QED BY Fields, <2>2, <2>3, <3>1, <3>2 DEF Epochs
  <2>5. watcher.current <= watcher.current
    BY Fields
  <2> QED
    BY AnnouncedPending, <2>1, <2>4, <2>5 DEF AnnouncedOnce, LastKnown, Over
<1> QED
  BY <1>1, <1>2, <1>3, <1>4, <1>5, <1>6, <1>7, <1>8, <1>9 DEF IInv

(* The id that is saved was announced.                                      *)
LEMMA SaveEpochIdInv ==
  ASSUME IInv, SaveEpochId
  PROVE  IInv'
<1>1. watcher' \in Watchers
  BY PingerAssumption DEF SaveEpochId, Save, IInv, TypeOK, Watchers
<1>2. TypeOK'
  <2>1. file' \in 0..MaxEpoch
    BY Fields DEF SaveEpochId, Save, IInv, TypeOK
  <2> QED BY <1>1, <2>1 DEF SaveEpochId, Save, IInv, TypeOK
<1>3. EpochsKnown'
  BY DEF SaveEpochId, Save, Watcher, IInv, Known, EpochsKnown, Pending
<1>4. ShutdownLast'
  BY DEF SaveEpochId, Save, Watcher, IInv, ShutdownLast
<1>5. TasksGood'
  BY DEF SaveEpochId, Save, Watcher, IInv, TasksGood
<1>6. SavedWasSent'
  BY DEF SaveEpochId, Save, Watcher, IInv, SavedWasSent, Pending, Over
<1>7. ChainGood' /\ SucceededIsSynced' /\ PingedIsSynced'
  BY DEF SaveEpochId, Save, Watcher, IInv, ChainGood, SucceededIsSynced, PingedIsSynced
<1>8. Forward'
  BY Fields DEF SaveEpochId, Save, IInv, Forward, None
<1>9. AnnouncedOnce'
  BY Fields DEF SaveEpochId, Save, Watcher, IInv, AnnouncedOnce, LastKnown, NextRead,
       Pending, Over
<1> QED
  BY <1>1, <1>2, <1>3, <1>4, <1>5, <1>6, <1>7, <1>8, <1>9 DEF IInv

(* The watcher stops reading after a signal.                                *)
LEMMA HeedSignalInv ==
  ASSUME IInv, HeedSignal
  PROVE  IInv'
<1>1. watcher' \in Watchers
  BY Fields DEF HeedSignal, Watchers, IInv, TypeOK
<1>2. TypeOK'
  BY <1>1, PingerAssumption DEF HeedSignal, Watcher, IInv, TypeOK
<1>3. EpochsKnown'
  BY DEF HeedSignal, Watcher, IInv, TypeOK, Epochs, None, Known, ChainStates,
       EpochsKnown, Pending
<1>4. ShutdownLast'
  BY DEF HeedSignal, Watcher, IInv, ShutdownLast
<1>5. TasksGood'
  BY DEF HeedSignal, Watcher, IInv, TasksGood
<1>6. SavedWasSent'
  BY DEF HeedSignal, Watcher, IInv, SavedWasSent, Pending, Over
<1>7. ChainGood' /\ SucceededIsSynced' /\ PingedIsSynced'
  BY DEF HeedSignal, IInv, ChainGood, SucceededIsSynced, PingedIsSynced
<1>8. Forward'
  BY Fields DEF HeedSignal, Watcher, IInv, Forward
<1>9. AnnouncedOnce'
  BY Fields DEF HeedSignal, Watcher, IInv, AnnouncedOnce, Forward, EpochsKnown,
       ChainGood, LastKnown, NextRead, Pending, Over, TypeOK, Histories
<1> QED
  BY <1>1, <1>2, <1>3, <1>4, <1>5, <1>6, <1>7, <1>8, <1>9 DEF IInv

(* The last id saved on a shutdown was announced, too.                      *)
LEMMA SaveLastEpochIdInv ==
  ASSUME IInv, SaveLastEpochId
  PROVE  IInv'
<1>1. watcher' \in Watchers
  BY PingerAssumption DEF SaveLastEpochId, Save, IInv, TypeOK, Watchers
<1>2. TypeOK'
  <2>1. file' \in 0..MaxEpoch
    BY Fields DEF SaveLastEpochId, Save, IInv, TypeOK
  <2> QED BY <1>1, <2>1 DEF SaveLastEpochId, Save, IInv, TypeOK
<1>3. EpochsKnown'
  BY DEF SaveLastEpochId, Save, Watcher, IInv, Known, EpochsKnown, Pending
<1>4. ShutdownLast'
  BY DEF SaveLastEpochId, Save, Watcher, IInv, ShutdownLast
<1>5. TasksGood'
  BY DEF SaveLastEpochId, Save, Watcher, IInv, TasksGood
<1>6. SavedWasSent'
  BY DEF SaveLastEpochId, Save, Watcher, IInv, SavedWasSent, Pending, Over
<1>7. ChainGood' /\ SucceededIsSynced' /\ PingedIsSynced'
  BY DEF SaveLastEpochId, Save, Watcher, IInv, ChainGood, SucceededIsSynced, PingedIsSynced
<1>8. Forward'
  BY Fields DEF SaveLastEpochId, Save, IInv, Forward, None
<1>9. AnnouncedOnce'
  BY Fields DEF SaveLastEpochId, Save, Watcher, IInv, AnnouncedOnce, LastKnown,
       NextRead, Pending, Over
<1> QED
  BY <1>1, <1>2, <1>3, <1>4, <1>5, <1>6, <1>7, <1>8, <1>9 DEF IInv

(* The shutdown message is the last one.                                    *)
LEMMA SendShutdownInv ==
  ASSUME IInv, SendShutdown
  PROVE  IInv'
<1>1. watcher' \in Watchers
  BY PingerAssumption DEF SendShutdown, Watcher, IInv, TypeOK, Watchers, ChainStates,
       Senders
<1>2. TypeOK'
  <2>1. channel' \in Seq(0..MaxEpoch) /\ Len(channel') = Len(channel) + 1
    BY Fields, Sent DEF SendShutdown, Shutdown
  <2>2. Len(channel') <= Capacity
    BY <2>1, PingerAssumption DEF SendShutdown, IInv, TypeOK
  <2> QED BY <1>1, <2>1, <2>2 DEF SendShutdown, IInv, TypeOK
<1>3. EpochsKnown'
  <2>1. watcher'.phase = "done" /\ watcher'.stream = watcher.stream
    BY DEF SendShutdown, IInv, TypeOK, Watchers
  <2> QED BY ShutdownPending, <2>1 DEF SendShutdown, IInv, EpochsKnown, Known
<1>4. ShutdownLast'
  BY DEF SendShutdown, Watcher, IInv, ShutdownLast
<1>5. TasksGood'
  BY DEF SendShutdown, Watcher, IInv, TasksGood
<1>6. SavedWasSent'
  <2>1. watcher'.epoch_id = watcher.epoch_id
    BY DEF SendShutdown, IInv, TypeOK, Watchers
  <2> QED BY ShutdownPending, <2>1 DEF SendShutdown, IInv, SavedWasSent, Over
<1>7. ChainGood' /\ SucceededIsSynced' /\ PingedIsSynced'
  BY DEF SendShutdown, IInv, ChainGood, SucceededIsSynced, PingedIsSynced
<1>8. Forward'
  BY Fields DEF SendShutdown, Watcher, IInv, Forward
<1>9. AnnouncedOnce'
  <2>1. /\ watcher.phase = "closing" /\ watcher'.phase = "done"
        /\ watcher'.epoch_id = watcher.epoch_id /\ watcher'.stream = watcher.stream
    BY DEF SendShutdown, Watcher, IInv
  <2> QED
    BY ShutdownPending, <2>1
       DEF SendShutdown, IInv, AnnouncedOnce, LastKnown, NextRead, Over
<1> QED
  BY <1>1, <1>2, <1>3, <1>4, <1>5, <1>6, <1>7, <1>8, <1>9 DEF IInv

(* The sender takes the first message.                                      *)
LEMMA ReceiveInv ==
  ASSUME IInv, Receive
  PROVE  IInv'
<1>1. sender' \in Senders
  <2>1. Head(channel) \in 0..MaxEpoch
    BY Receiving DEF Receive, IInv, TypeOK
  <2> QED BY <2>1, Fields DEF Receive, IInv, TypeOK, Senders
<1>2. TypeOK'
  BY <1>1, PingerAssumption DEF Receive, IInv, TypeOK, Epochs, None
<1>3. EpochsKnown'
  BY ReceivedPending DEF Receive, IInv, EpochsKnown, Known
<1>4. ShutdownLast'
  <2>1. /\ channel \in Seq(0..MaxEpoch) /\ channel # <<>>
        /\ channel' = Tail(channel) /\ watcher' = watcher
    BY DEF Receive, IInv, TypeOK
  <2>2. SUFFICES ASSUME NEW i \in 1..Len(channel'), channel'[i] = Shutdown
                 PROVE  i = Len(channel') /\ watcher.phase = "done"
    BY <2>1 DEF ShutdownLast
  <2>3. /\ Len(channel') = Len(channel) - 1 /\ Len(channel) \in Nat
        /\ i + 1 \in 1..Len(channel) /\ channel[i + 1] = Shutdown
    BY <2>1, <2>2
  <2>4. i + 1 = Len(channel) /\ watcher.phase = "done"
    BY <2>3 DEF IInv, ShutdownLast
  <2> QED BY <2>2, <2>3, <2>4
<1>5. TasksGood'
  BY DEF Receive, IInv, TypeOK, Shutdown, Senders, TasksGood, ShutdownLast
<1>6. SavedWasSent'
  BY ReceivedPending DEF Receive, IInv, SavedWasSent, Over
<1>7. SucceededIsSynced'
  BY DEF Receive, IInv, SucceededIsSynced
<1>8. ChainGood' /\ PingedIsSynced'
  BY DEF Receive, IInv, ChainGood, PingedIsSynced
<1>9. Forward'
  BY Fields DEF Receive, IInv, Forward
<1>10. AnnouncedOnce'
  BY ReceivedPending DEF Receive, IInv, AnnouncedOnce, LastKnown, NextRead, Over
<1> QED
  BY <1>1, <1>2, <1>3, <1>4, <1>5, <1>6, <1>7, <1>8, <1>9, <1>10 DEF IInv

(* A ping that is executed recognises all rewards.                          *)
LEMMA PingExecutedInv ==
  ASSUME IInv, PingExecuted
  PROVE  IInv'
<1>1. chain' \in ChainStates
  <2>1. chain.epoch \in 0..MaxEpoch
    BY Fields
  <2> QED BY <2>1 DEF PingExecuted, Synced, IInv, TypeOK, ChainStates
<1>2. sender' \in Senders
  BY PingerAssumption DEF PingExecuted, IInv, TypeOK, Senders
<1>3. TypeOK'
  BY <1>1, <1>2, PingerAssumption DEF PingExecuted, IInv, TypeOK
<1>4. ChainGood'
  BY DEF PingExecuted, Synced, AlreadySynced, PingFails, IsSuccess, IInv, TypeOK,
       Epochs, ChainStates, ChainGood
<1>5. EpochsKnown'
  BY DEF PingExecuted, Synced, IInv, Known, EpochsKnown, Pending
<1>6. TasksGood'
  BY DEF PingExecuted, Synced, AlreadySynced, PingFails, IsSuccess, IInv, TasksGood
<1>7. SavedWasSent'
  BY DEF PingExecuted, IInv, SavedWasSent, Pending, Over
<1>8. SucceededIsSynced'
  BY DEF PingExecuted, Synced, AlreadySynced, PingFails, IsSuccess, IInv, TypeOK,
       Epochs, None, ChainStates, SucceededIsSynced, ChainGood
<1>9. PingedIsSynced'
  BY DEF PingExecuted, Synced, AlreadySynced, PingFails, IsSuccess, IInv, PingedIsSynced
<1>10. ShutdownLast'
  BY DEF PingExecuted, IInv, ShutdownLast
<1>11. Forward'
  BY Fields DEF PingExecuted, Synced, AlreadySynced, PingFails, IsSuccess, IInv, Forward
<1>12. AnnouncedOnce'
  BY Fields DEF PingExecuted, Synced, IInv, AnnouncedOnce, LastKnown, NextRead,
       Pending, Over
<1> QED
  BY <1>1, <1>2, <1>3, <1>4, <1>5, <1>6, <1>7, <1>8, <1>9, <1>10, <1>11, <1>12 DEF IInv

(* A ping without an answer may still be executed.                          *)
LEMMA NoAnswerInv ==
  ASSUME IInv, NoAnswer
  PROVE  IInv'
<1>1. sender' \in Senders
  BY PingerAssumption DEF NoAnswer, IInv, TypeOK, Senders, ChainStates, Watchers
<1>2. TypeOK'
  BY <1>1, PingerAssumption DEF NoAnswer, IInv, TypeOK, Epochs, None
<1>3. EpochsKnown'
  BY DEF NoAnswer, IInv, Known, EpochsKnown, Pending
<1>4. TasksGood'
  BY DEF NoAnswer, IInv, TasksGood
<1>5. SavedWasSent'
  BY DEF NoAnswer, IInv, SavedWasSent, Pending, Over
<1>6. SucceededIsSynced'
  BY DEF NoAnswer, IInv, SucceededIsSynced
<1>7. ChainGood' /\ ShutdownLast' /\ PingedIsSynced'
  BY DEF NoAnswer, IInv, ChainGood, ShutdownLast, PingedIsSynced
<1>8. Forward'
  BY Fields DEF NoAnswer, IInv, Forward
<1>9. AnnouncedOnce'
  BY Fields DEF NoAnswer, IInv, AnnouncedOnce, LastKnown, NextRead, Pending, Over
<1> QED
  BY <1>1, <1>2, <1>3, <1>4, <1>5, <1>6, <1>7, <1>8, <1>9 DEF IInv

(* An answer ends the epoch's pings.                                        *)
LEMMA SucceedInv ==
  ASSUME IInv, Succeed
  PROVE  IInv'
<1>1. sender' \in Senders
  BY Fields DEF Succeed, Senders, Off
<1>2. history' \in Histories
  <2>1. sender.epoch \in Epochs
    BY Fields DEF Succeed, IInv, TasksGood, Epochs, None
  <2> QED BY <2>1 DEF Succeed, IInv, TypeOK, Histories
<1>3. TypeOK'
  BY <1>1, <1>2, PingerAssumption DEF Succeed, Off, IInv, TypeOK
<1>4. EpochsKnown'
  <2>1. sender.epoch \in Known
    BY DEF Succeed, IInv, EpochsKnown, TasksGood, Pending
  <2>2. Pending' \subseteq Pending /\ watcher' = watcher /\ chain' = chain
    BY DEF Succeed, Pending, Off
  <2>3. history'.pinged = history.pinged \cup {sender.epoch}
    BY DEF Succeed, IInv, TypeOK, Histories
  <2> QED BY <2>1, <2>2, <2>3 DEF IInv, EpochsKnown, Known
<1>5. TasksGood'
  BY DEF Succeed, Off, IInv, TasksGood
<1>6. SavedWasSent'
  BY DEF Succeed, Off, IInv, SavedWasSent, Pending, Over
<1>7. SucceededIsSynced'
  BY DEF Succeed, Off, IInv, SucceededIsSynced
<1>8. PingedIsSynced'
  BY DEF Succeed, IInv, PingedIsSynced, SucceededIsSynced
<1>9. ChainGood' /\ ShutdownLast'
  BY DEF Succeed, IInv, ChainGood, ShutdownLast
<1>10. Forward'
  BY Fields DEF Succeed, Off, IInv, Forward
<1>11. AnnouncedOnce'
  BY Fields DEF Succeed, Off, IInv, AnnouncedOnce, LastKnown, NextRead, Pending, Over,
       Epochs, None
<1> QED
  BY <1>1, <1>2, <1>3, <1>4, <1>5, <1>6, <1>7, <1>8, <1>9, <1>10, <1>11 DEF IInv

(* A failure is followed by another ping.                                   *)
LEMMA RetryInv ==
  ASSUME IInv, Retry
  PROVE  IInv'
<1>1. sender' \in Senders
  <2>1. sender.attempts + 1 \in 0..MaxRetries
    BY Fields, PingerAssumption DEF Retry
  <2> QED BY <2>1 DEF Retry, IInv, TypeOK, Senders
<1>2. TypeOK'
  BY <1>1, PingerAssumption DEF Retry, IInv, TypeOK, Epochs, None
<1>3. EpochsKnown'
  BY DEF Retry, IInv, Known, EpochsKnown, Pending
<1>4. TasksGood'
  BY DEF Retry, IInv, TasksGood
<1>5. SavedWasSent'
  BY DEF Retry, IInv, SavedWasSent, Pending, Over
<1>6. SucceededIsSynced'
  BY DEF Retry, IInv, SucceededIsSynced
<1>7. ChainGood' /\ ShutdownLast' /\ PingedIsSynced'
  BY DEF Retry, IInv, ChainGood, ShutdownLast, PingedIsSynced
<1>8. Forward'
  BY Fields DEF Retry, IInv, Forward
<1>9. AnnouncedOnce'
  BY Fields DEF Retry, IInv, AnnouncedOnce, LastKnown, NextRead, Pending, Over
<1> QED
  BY <1>1, <1>2, <1>3, <1>4, <1>5, <1>6, <1>7, <1>8, <1>9 DEF IInv

(* After the last retry the epoch is given up.                              *)
LEMMA GiveUpInv ==
  ASSUME IInv, GiveUp
  PROVE  IInv'
<1>1. sender' \in Senders
  BY Fields DEF GiveUp, Senders, Off
<1>2. history' \in Histories
  <2>1. sender.epoch \in Epochs
    BY Fields DEF GiveUp, IInv, TasksGood, Epochs, None
  <2> QED BY <2>1 DEF GiveUp, IInv, TypeOK, Histories
<1>3. TypeOK'
  BY <1>1, <1>2, PingerAssumption DEF GiveUp, Off, IInv, TypeOK
<1>4. EpochsKnown'
  BY DEF GiveUp, Off, IInv, Known, EpochsKnown, Pending
<1>5. TasksGood'
  BY DEF GiveUp, Off, IInv, TasksGood
<1>6. SavedWasSent'
  BY DEF GiveUp, Off, IInv, SavedWasSent, Pending, Over
<1>7. SucceededIsSynced'
  BY DEF GiveUp, Off, IInv, SucceededIsSynced
<1>8. PingedIsSynced'
  BY DEF GiveUp, Off, IInv, PingedIsSynced
<1>9. ChainGood' /\ ShutdownLast'
  BY DEF GiveUp, IInv, ChainGood, ShutdownLast
<1>10. Forward'
  BY Fields DEF GiveUp, Off, IInv, Forward
<1>11. AnnouncedOnce'
  BY Fields DEF GiveUp, Off, IInv, AnnouncedOnce, LastKnown, NextRead, Pending, Over,
       Epochs, None
<1> QED
  BY <1>1, <1>2, <1>3, <1>4, <1>5, <1>6, <1>7, <1>8, <1>9, <1>10, <1>11 DEF IInv

(* Every step of the chain, the process and its tasks keeps the invariant.  *)
LEMMA NextInv ==
  ASSUME IInv, [Next]_vars
  PROVE  IInv'
<1>1. CASE Environment
  BY <1>1, NextEpochInv, DeficitChangesInv, LateExecutedInv, CrashInv, SignalInv
     DEF Environment
<1>2. CASE Start \/ Exit
  BY <1>2, StartInv, ExitInv
<1>3. CASE WatcherStep
  BY <1>3, ConnectInv, StreamFailsInv, GoodBlockInv, BadBlockInv, SendEpochChangedInv,
     SaveEpochIdInv, HeedSignalInv, SaveLastEpochIdInv, SendShutdownInv DEF WatcherStep
<1>4. CASE SenderStep
  BY <1>4, ReceiveInv, PingExecutedInv, NoAnswerInv, SucceedInv, RetryInv, GiveUpInv
     DEF SenderStep
<1>5. CASE UNCHANGED vars
  BY <1>5 DEF vars, IInv, TypeOK, ChainGood, EpochsKnown, ShutdownLast, TasksGood,
       Forward, AnnouncedOnce, LastKnown, NextRead, SavedWasSent, SucceededIsSynced,
       PingedIsSynced, Pending, Over, Known
<1> QED
  BY <1>1, <1>2, <1>3, <1>4, <1>5 DEF Next

(* The daemon starts with an empty file and an empty channel.               *)
LEMMA InitInv ==
  ASSUME Init
  PROVE  IInv
<1>1. Pending = {} /\ Over = {} /\ channel = <<>>
  BY DEF Init, Pending, Over, Off, ToSet, None
<1>2. TypeOK
  BY PingerAssumption DEF Init, TypeOK, ChainStates, Watchers, Senders, Histories,
       Epochs, None, Down, Off
<1>3. ChainGood /\ Forward /\ TasksGood /\ SucceededIsSynced
  BY DEF Init, ChainGood, Forward, TasksGood, SucceededIsSynced, Down, Off, None
<1>4. EpochsKnown /\ AnnouncedOnce /\ ShutdownLast
  BY <1>1 DEF Init, EpochsKnown, AnnouncedOnce, ShutdownLast, Down, None
<1>5. SavedWasSent /\ PingedIsSynced
  BY DEF Init, SavedWasSent, PingedIsSynced, Down, None
<1> QED
  BY <1>2, <1>3, <1>4, <1>5 DEF IInv

-----------------------------------------------------------------------------
(* The theorems.                                                            *)

(* The invariant of the daemon, the file and the contract's ping, through   *)
(* every crash, restart, failed write, timeout and late transaction.        *)
THEOREM Invariance == Spec => []IInv
<1>1. Init => IInv
  BY InitInv
<1>2. IInv /\ [Next]_vars => IInv'
  BY NextInv
<1> QED
  BY <1>1, <1>2, PTL DEF Spec

(* TypeOK: the channel stays within its capacity, the attempts of TxSender  *)
(* within its retries.                                                      *)
THEOREM TypeCorrect == Spec => []TypeOK
<1>1. IInv => TypeOK
  BY DEF IInv
<1> QED
  BY <1>1, Invariance, PTL

(* SavedWasSent: EpochWatcher never saves, and no restart loads, an epoch   *)
(* id whose message was not put into the channel before.                    *)
THEOREM SavedIsSent == Spec => []SavedWasSent
<1>1. IInv => SavedWasSent
  BY DEF IInv
<1> QED
  BY <1>1, Invariance, PTL

(* PingedIsSynced: TxSender counts a ping as a success only if the contract *)
(* recognised the rewards of that epoch and of all before.                  *)
THEOREM PingedAreSynced == Spec => []PingedIsSynced
<1>1. IInv => PingedIsSynced
  BY DEF IInv
<1> QED
  BY <1>1, Invariance, PTL

(* ShutdownDrains: the sender ends on a Shutdown only when every epoch      *)
(* announced before it was pinged or given up.                              *)
THEOREM ShutdownIsDrained == Spec => []ShutdownDrains
<1>1. IInv => ShutdownDrains
  BY DEF IInv, TasksGood, ShutdownDrains, Pending, ToSet, None
<1> QED
  BY <1>1, Invariance, PTL

(* NoRepeat: next_event announces an epoch a second time only if a process  *)
(* ended with its id missing from the file.                                 *)
THEOREM NothingIsRepeated == Spec => NoRepeat
<1>1. ASSUME IInv, NEW e \in Epochs, Watcher("sending"), watcher.current = e,
             e \in Pending \cup Over
      PROVE  e \in history.unsaved
  <2>1. /\ watcher.phase = "sending" /\ watcher.stream = e /\ e # None
        /\ watcher.epoch_id <= e /\ watcher.epoch_id # e
    BY <1>1 DEF Watcher, IInv, Forward, Epochs, None
  <2>2. SUFFICES ASSUME e \notin history.unsaved PROVE FALSE
    OBVIOUS
  <2>3. e <= watcher.epoch_id \/ e < e
    BY <1>1, <2>1, <2>2 DEF IInv, AnnouncedOnce, LastKnown, NextRead
  <2> QED BY <1>1, Fields, <2>1, <2>3 DEF Epochs
<1>2. IInv =>
        \A e \in Epochs :
          /\ Watcher("sending") /\ watcher.current = e /\ watcher'.phase = "saving"
          /\ e \in Pending \cup Over
          => e \in history.unsaved
  BY <1>1
<1> QED
  BY <1>2, Invariance, PTL DEF NoRepeat

=============================================================================
