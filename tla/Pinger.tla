------------------------------- MODULE Pinger -------------------------------
(***************************************************************************)
(* The pinger daemon: watcher.rs, sender.rs, service/mod.rs and message.rs,  *)
(* with the contract's ping as far as the daemon depends on it.             *)
(*                                                                         *)
(* The watcher reads a stream of blocks.  When the epoch id changes it puts *)
(* a message into a bounded channel, then saves the id to a file, so that a *)
(* restart does not ping again in the same epoch.  The sender takes the     *)
(* messages one by one and calls ping, retrying with a bound.  A signal is  *)
(* heeded only between two events of the watcher, and a Shutdown message    *)
(* takes its place in the channel behind the work that is there.            *)
(*                                                                         *)
(* The process may be killed at any moment.  Its memory and the channel are *)
(* gone then; the file stays, perhaps truncated, and so do transactions     *)
(* that were submitted.  Epoch ids are hashes, modelled by the number of    *)
(* the epoch; the messages carry no epoch, here they do as a ghost.         *)
(***************************************************************************)
EXTENDS Integers, Sequences, FiniteSets, SequencesExt

CONSTANTS
  MaxEpoch,    \* bound on the epochs of the chain
  Capacity,    \* capacity of the channel (10 in the code)
  MaxRetries,  \* retries after the first attempt (5 in the code)
  MaxStarts,   \* bound on the starts of the process
  MaxLate      \* bound on the submitted transactions nobody waits for

Epochs == 1..MaxEpoch

None == 0      \* no epoch id, or a file without a readable one

ASSUME PingerAssumption ==
  /\ MaxEpoch \in Nat \ {0} /\ Capacity \in Nat \ {0}
  /\ MaxRetries \in Nat /\ MaxStarts \in Nat /\ MaxLate \in Nat

VARIABLES
  chain,    \* the epoch, and the contract's state as ping sees it
  file,     \* the epoch id on disk
  watcher,  \* the task EpochWatcher
  channel,  \* messages from the watcher to the sender
  sender,   \* the task TxSender
  late,     \* transactions submitted that may still be executed
  starts,   \* number of times the process was started
  history   \* ghost: what became of every epoch

vars == <<chain, file, watcher, channel, sender, late, starts, history>>

Shutdown == None   \* the message Shutdown; an EpochChanged is its epoch

-----------------------------------------------------------------------------
(* The contract.  Rewards arrive when an epoch begins; `deficit` says that  *)
(* transfers in flight leave the balance below the tracked total.           *)

AlreadySynced(c) == c.last_epoch_synced = c.epoch

PingFails(c) == ~AlreadySynced(c) /\ c.deficit

(* sync_rewards_internal.                                                   *)
Synced(c) ==
  IF AlreadySynced(c) \/ c.deficit \/ c.unsynced = {}
  THEN c
  ELSE [c EXCEPT !.unsynced = {}, !.last_epoch_synced = c.epoch]

NextEpoch ==
  /\ chain.epoch < MaxEpoch
  /\ chain' = [chain EXCEPT !.epoch = @ + 1, !.unsynced = @ \cup {chain.epoch + 1}]
  /\ UNCHANGED <<file, watcher, channel, sender, late, starts, history>>

DeficitChanges ==
  /\ chain' = [chain EXCEPT !.deficit = ~@]
  /\ UNCHANGED <<file, watcher, channel, sender, late, starts, history>>

(* A transaction the sender has given up on, or an earlier process sent, is *)
(* executed after all.                                                      *)
LateExecuted ==
  /\ late > 0
  /\ late' = late - 1
  /\ chain' = Synced(chain)
  /\ UNCHANGED <<file, watcher, channel, sender, starts, history>>

-----------------------------------------------------------------------------
(* The process.                                                             *)

Down == [phase |-> "down", epoch_id |-> None, stream |-> None,
         current |-> None, signalled |-> FALSE]

Off == [phase |-> "down", epoch |-> None, attempts |-> 0]

Running == watcher.phase # "down"

Init ==
  /\ chain = [epoch |-> 1, unsynced |-> {}, last_epoch_synced |-> 0, deficit |-> FALSE]
  /\ file = None
  /\ watcher = Down /\ sender = Off
  /\ channel = <<>>
  /\ late = 0 /\ starts = 0
  /\ history = [pinged |-> {}, given_up |-> {}, lost |-> {}, unsaved |-> {}]

\* A bug NoRepeat catches: the saved epoch id is not loaded.
Loaded_Nothing == None

(* load_epoch_id.                                                           *)
Loaded == file

Start ==
  /\ ~Running /\ starts < MaxStarts
  /\ starts' = starts + 1
  /\ watcher' = [Down EXCEPT !.phase = "polling", !.epoch_id = Loaded]
  /\ sender' = [Off EXCEPT !.phase = "receiving"]
  /\ channel' = <<>>
  /\ UNCHANGED <<chain, file, late, history>>

(* Epochs whose message is in the channel or with the sender.               *)
Pending == (ToSet(channel) \cup {sender.epoch}) \ {None}

(* What the end of the process does to the history: what is pending is      *)
(* lost, and an epoch id that is not in the file is forgotten.              *)
Ended(saved) ==
  [history EXCEPT
     !.lost = @ \cup Pending,
     !.unsaved = @ \cup ((Pending \cup {watcher.epoch_id}) \ {None, saved})]

(* The process is killed.  A write to the file may have truncated it.       *)
Crash ==
  /\ Running
  /\ file' \in IF watcher.phase \in {"saving", "flushing"} THEN {file, None} ELSE {file}
  /\ watcher' = Down /\ sender' = Off /\ channel' = <<>>
  /\ late' \in IF sender.phase = "asking" THEN {late, late + 1} ELSE {late}
  /\ late' <= MaxLate
  /\ history' = Ended(file')
  /\ UNCHANGED <<chain, starts>>

(* run returns when both tasks have.                                        *)
Exit ==
  /\ watcher.phase = "done" /\ sender.phase = "done"
  /\ watcher' = Down /\ sender' = Off /\ channel' = <<>>
  /\ history' = Ended(file)
  /\ UNCHANGED <<chain, file, late, starts>>

Signal ==
  /\ Running /\ ~watcher.signalled
  /\ watcher' = [watcher EXCEPT !.signalled = TRUE]
  /\ UNCHANGED <<chain, file, channel, sender, late, starts, history>>

-----------------------------------------------------------------------------
(* The watcher.                                                             *)

Watcher(phase) == watcher.phase = phase

\* A bug RewardsAreRecognised catches: after an error the stream is not created again.
Connect_Once ==
  /\ Watcher("polling") /\ watcher.stream = None /\ watcher.epoch_id = None
  /\ watcher' = [watcher EXCEPT !.stream = chain.epoch]
  /\ UNCHANGED <<chain, file, channel, sender, late, starts, history>>

(* create_stream, from the latest block.  A failed attempt changes nothing. *)
Connect ==
  /\ Watcher("polling") /\ watcher.stream = None
  /\ watcher' = [watcher EXCEPT !.stream = chain.epoch]
  /\ UNCHANGED <<chain, file, channel, sender, late, starts, history>>

(* An error of the stream, or 20 seconds without a block.                   *)
StreamFails ==
  /\ Watcher("polling") /\ watcher.stream # None
  /\ watcher' = [watcher EXCEPT !.stream = None]
  /\ UNCHANGED <<chain, file, channel, sender, late, starts, history>>

(* The epochs the next block may belong to.                                 *)
Arriving ==
  IF watcher.stream = None THEN {} ELSE {watcher.stream, watcher.stream + 1} \cap 1..chain.epoch

\* A bug SavedWasSent catches: the epoch id is saved before the message is sent.
BlockRead_SavesFirst(e) ==
  /\ watcher' = [watcher EXCEPT !.stream = e, !.phase = "sending", !.current = e]
  /\ file' = e

(* A block of another epoch than the last is announced; others change       *)
(* nothing.                                                                 *)
BlockRead(e) ==
  /\ watcher' = IF e = watcher.epoch_id
                THEN [watcher EXCEPT !.stream = e]
                ELSE [watcher EXCEPT !.stream = e, !.phase = "sending", !.current = e]
  /\ UNCHANGED file

GoodBlock ==
  /\ Watcher("polling")
  /\ \E e \in Arriving : BlockRead(e)
  /\ UNCHANGED <<chain, channel, sender, late, starts, history>>

(* A block that cannot be decoded is skipped.                               *)
BadBlock ==
  /\ Watcher("polling")
  /\ \E e \in Arriving : watcher' = [watcher EXCEPT !.stream = e]
  /\ UNCHANGED <<chain, file, channel, sender, late, starts, history>>

(* send(EpochChanged) waits for room in the channel.                        *)
SendEpochChanged ==
  /\ Watcher("sending") /\ Len(channel) < Capacity
  /\ channel' = Append(channel, watcher.current)
  /\ watcher' = [watcher EXCEPT !.phase = "saving", !.epoch_id = watcher.current,
                                !.current = None]
  /\ UNCHANGED <<chain, file, sender, late, starts, history>>

(* save_epoch_id; a failure is logged and may leave the file truncated.     *)
Save(from, to) ==
  /\ Watcher(from)
  /\ watcher' = [watcher EXCEPT !.phase = to]
  /\ file' \in {watcher.epoch_id, file, None}
  /\ UNCHANGED <<chain, channel, sender, late, starts, history>>

SaveEpochId == Save("saving", "polling")

(* The loop is left, whatever next_event waits for.                         *)
HeedSignal ==
  /\ Watcher("polling") /\ watcher.signalled
  /\ watcher' = [watcher EXCEPT !.phase = IF watcher.epoch_id = None
                                          THEN "closing" ELSE "flushing",
                                !.stream = None]
  /\ UNCHANGED <<chain, file, channel, sender, late, starts, history>>

SaveLastEpochId == Save("flushing", "closing")

SendShutdown ==
  /\ Watcher("closing") /\ Len(channel) < Capacity
  /\ channel' = Append(channel, Shutdown)
  /\ watcher' = [watcher EXCEPT !.phase = "done"]
  /\ UNCHANGED <<chain, file, sender, late, starts, history>>

-----------------------------------------------------------------------------
(* The sender.                                                              *)

\* A bug ShutdownDrains catches: a Shutdown is heeded before the work in the channel.
Receive_ShutdownFirst ==
  /\ sender.phase = "receiving" /\ channel # <<>>
  /\ IF Shutdown \in ToSet(channel)
     THEN /\ sender' = [sender EXCEPT !.phase = "done"]
          /\ UNCHANGED channel
     ELSE /\ sender' = [phase |-> "asking", epoch |-> Head(channel), attempts |-> 0]
          /\ channel' = Tail(channel)
  /\ UNCHANGED <<chain, file, watcher, late, starts, history>>

Receive ==
  /\ sender.phase = "receiving" /\ channel # <<>>
  /\ channel' = Tail(channel)
  /\ sender' = IF Head(channel) = Shutdown
               THEN [sender EXCEPT !.phase = "done"]
               ELSE [phase |-> "asking", epoch |-> Head(channel), attempts |-> 0]
  /\ UNCHANGED <<chain, file, watcher, late, starts, history>>

\* A bug PingedIsSynced catches: the transaction's own status is not looked at.
IsSuccess_Any(c) == TRUE

IsSuccess(c) == ~PingFails(c)

(* ping is executed within the time of an attempt.                          *)
PingExecuted ==
  /\ sender.phase = "asking"
  /\ chain' = Synced(chain)
  /\ sender' = [sender EXCEPT !.phase = IF IsSuccess(chain) THEN "succeeded" ELSE "failed"]
  /\ UNCHANGED <<file, watcher, channel, late, starts, history>>

(* The call fails, or takes more than 30 seconds: the transaction may still *)
(* be executed later, or may have been refused by the node.                 *)
NoAnswer ==
  /\ sender.phase = "asking"
  /\ sender' = [sender EXCEPT !.phase = "failed"]
  /\ late' \in {late, late + 1} /\ late' <= MaxLate
  /\ UNCHANGED <<chain, file, watcher, channel, starts, history>>

Succeed ==
  /\ sender.phase = "succeeded"
  /\ sender' = [Off EXCEPT !.phase = "receiving"]
  /\ history' = [history EXCEPT !.pinged = @ \cup {sender.epoch}]
  /\ UNCHANGED <<chain, file, watcher, channel, late, starts>>

\* A bug TypeOK catches: one retry too many.
Retry_OneMore ==
  /\ sender.phase = "failed" /\ sender.attempts <= MaxRetries
  /\ sender' = [sender EXCEPT !.phase = "asking", !.attempts = @ + 1]
  /\ UNCHANGED <<chain, file, watcher, channel, late, starts, history>>

\* A bug StopsOnSignal catches: a ping is retried until it succeeds.
Retry_Unbounded ==
  /\ sender.phase = "failed"
  /\ sender' = [sender EXCEPT !.phase = "asking"]
  /\ UNCHANGED <<chain, file, watcher, channel, late, starts, history>>

(* Retry after a delay, or log the failure and wait for the next epoch.     *)
Retry ==
  /\ sender.phase = "failed" /\ sender.attempts < MaxRetries
  /\ sender' = [sender EXCEPT !.phase = "asking", !.attempts = @ + 1]
  /\ UNCHANGED <<chain, file, watcher, channel, late, starts, history>>

GiveUp ==
  /\ sender.phase = "failed" /\ sender.attempts = MaxRetries
  /\ sender' = [Off EXCEPT !.phase = "receiving"]
  /\ history' = [history EXCEPT !.given_up = @ \cup {sender.epoch}]
  /\ UNCHANGED <<chain, file, watcher, channel, late, starts>>

-----------------------------------------------------------------------------
Environment == NextEpoch \/ DeficitChanges \/ LateExecuted \/ Crash \/ Signal

WatcherStep ==
  \/ Connect \/ StreamFails \/ GoodBlock \/ BadBlock
  \/ SendEpochChanged \/ SaveEpochId
  \/ HeedSignal \/ SaveLastEpochId \/ SendShutdown

SenderStep == Receive \/ PingExecuted \/ NoAnswer \/ Succeed \/ Retry \/ GiveUp

Next == Environment \/ Start \/ Exit \/ WatcherStep \/ SenderStep

Spec == Init /\ [][Next]_vars

CatchesUp == watcher'.stream \in {watcher.stream + 1, chain.epoch}

(* The chain goes on, and tasks that can proceed do: a call of ping returns within 30 seconds, a   *)
(* stopped process is started again, and a signal, once select! polls it,   *)
(* is not passed over for ever.  The stream may fail again and again, but   *)
(* readable blocks keep arriving between the failures and catch up with the *)
(* chain.                                                                   *)
Fairness ==
  /\ WF_vars(NextEpoch)
  /\ WF_vars(Start) /\ WF_vars(Exit)
  /\ WF_vars(Connect) /\ WF_vars(HeedSignal)
  /\ WF_vars(SendEpochChanged) /\ WF_vars(SendShutdown)
  /\ WF_vars(SaveEpochId) /\ WF_vars(SaveLastEpochId)
  /\ WF_vars(SenderStep)
  /\ SF_vars(GoodBlock /\ CatchesUp)

FairSpec == Spec /\ Fairness

-----------------------------------------------------------------------------
(* Properties.                                                              *)

ChainStates ==
  [epoch : Epochs, unsynced : SUBSET Epochs,
   last_epoch_synced : 0..MaxEpoch, deficit : BOOLEAN]

Watchers ==
  [phase : {"down", "polling", "sending", "saving", "flushing", "closing", "done"},
   epoch_id : 0..MaxEpoch, stream : 0..MaxEpoch, current : 0..MaxEpoch,
   signalled : BOOLEAN]

Senders ==
  [phase : {"down", "receiving", "asking", "succeeded", "failed", "done"},
   epoch : 0..MaxEpoch, attempts : 0..MaxRetries]

Histories ==
  [pinged : SUBSET Epochs, given_up : SUBSET Epochs,
   lost : SUBSET Epochs, unsaved : SUBSET Epochs]

(* The channel never exceeds its capacity, and an attempt is never counted  *)
(* beyond the retries README.md promises.                                   *)
TypeOK ==
  /\ chain \in ChainStates /\ file \in 0..MaxEpoch
  /\ watcher \in Watchers /\ sender \in Senders
  /\ channel \in Seq(0..MaxEpoch) /\ Len(channel) <= Capacity
  /\ late \in 0..MaxLate /\ starts \in 0..MaxStarts
  /\ history \in Histories

(* An epoch that is over for the daemon: its ping succeeded, was given up   *)
(* after the last retry, or went down with the process.                     *)
Over == history.pinged \cup history.given_up \cup history.lost

(* The file never runs ahead of the channel: the epoch it would keep a new  *)
(* process from pinging was handed to the sender before, whenever the       *)
(* process is killed, and whatever a failed write left behind.              *)
SavedWasSent == {file, watcher.epoch_id} \ {None} \subseteq Pending \cup Over

(* A ping that counts as a success was not postponed: the rewards of its    *)
(* epoch and of all before are recognised, also if the transaction was      *)
(* executed in a later epoch, or an earlier attempt was, after its timeout. *)
PingedIsSynced ==
  \A e \in history.pinged : \A r \in chain.unsynced : r > e

(* "The sender drains before the process exits": a Shutdown is the last     *)
(* message, and what was announced before it is lost only by a crash.       *)
ShutdownDrains == sender.phase = "done" => Pending = {} /\ watcher.phase = "done"

(* "The daemon does not re-ping on restart within the same epoch": an epoch *)
(* is announced a second time only if a process ended with its id missing   *)
(* from the file.                                                           *)
NoRepeat ==
  [][\A e \in Epochs :
       /\ Watcher("sending") /\ watcher.current = e /\ watcher'.phase = "saving"
       /\ e \in Pending \cup Over
       => e \in history.unsaved]_vars

(* A signal stops the process, also while the stream is down, the channel   *)
(* is full, or every attempt to ping fails.                                 *)
StopsOnSignal == watcher.signalled ~> ~Running

(* Rewards are recognised in the end, those of an epoch that was lost or    *)
(* given up by the ping of a later one, unless the last epoch of all is     *)
(* given up or lost itself, or the daemon is not started any more.          *)
RewardsAreRecognised ==
  chain.unsynced # {} ~>
    \/ chain.unsynced = {}
    \/ MaxEpoch \in history.given_up \cup history.lost
    \/ ~Running /\ starts = MaxStarts

=============================================================================
