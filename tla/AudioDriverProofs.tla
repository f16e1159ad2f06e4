-------------------------- MODULE AudioDriverProofs --------------------------
(***************************************************************************)
(* Proofs about AudioDriver, for any volumes and any set of faults: what   *)
(* the calls leave behind, from one inductive invariant that says for each *)
(* step of a call what the steps before it have done.                      *)
(***************************************************************************)
EXTENDS AudioDriver, TLAPS

InitLabels == {"bus", "adc", "dac", "tx_new", "tx_std", "rx_new", "rx_std"}
StartLabels == {"tx_on", "rx_on", "out_on"}
StopLabels == {"out_off", "tx_off", "rx_off"}
DeinitLabels == {"tx_del", "rx_del", "adc_reset", "dac_mute", "dac_reset", "bus_del"}

\* Which call is at which step, and that init runs only on a driver that is
\* off, the others only on one that is on and has its bus.
ControlInv ==
  /\ pc = "idle" <=> call = "none"
  /\ pc \in InitLabels <=> call = "init"
  /\ pc \in StartLabels <=> call = "start"
  /\ pc \in StopLabels \cup DeinitLabels <=> call \in {"stop", "deinit"}
  /\ pc \in DeinitLabels => call = "deinit"
  /\ call = "init" => ~initialized
  /\ call \in {"start", "stop", "deinit"} => initialized
  /\ initialized => bus

\* What init has brought up when it is at a step.
InitInv ==
  /\ pc \in InitLabels \ {"bus"} => bus
  /\ pc \in InitLabels \ {"bus", "adc"} => adc = "configured"
  /\ pc \in InitLabels \ {"bus", "adc", "dac"} =>
       dac.config = "configured" /\ dac.volume = VolumeReg(volume)
  /\ pc \in {"tx_std", "rx_new", "rx_std"} => handle["tx"]
  /\ pc \in {"rx_new", "rx_std"} => chan["tx"] = "ready"
  /\ pc = "rx_std" => handle["rx"]

\* Which channels run when start, stop or deinit is at a step.
RunInv ==
  /\ pc \in {"rx_on", "out_on"} => chan["tx"] = "running"
  /\ pc = "out_on" => chan["rx"] = "running"
  /\ pc \in {"rx_off"} \cup DeinitLabels => chan["tx"] # "running"
  /\ pc \in DeinitLabels => chan["rx"] # "running"

\* What deinit has taken down when it is at a step, and that init, as long as
\* nothing failed, finds what it is about to take.
CleanInv ==
  /\ pc \in DeinitLabels \ {"tx_del"} => ~handle["tx"]
  /\ pc \in DeinitLabels \ {"tx_del", "rx_del"} => ~handle["rx"]
  /\ ~faulty =>
       /\ pc \in {"dac_mute", "dac_reset", "bus_del"} => adc = "reset"
       /\ pc = "bus_del" => dac.config = "reset" /\ ~dac.out
       /\ pc \in {"idle", "bus"} /\ ~initialized =>
            /\ ~bus /\ \A d \in Dirs : chan[d] = "free"
            /\ adc = "reset" /\ dac.config = "reset" /\ ~dac.out
       /\ pc \in {"adc", "dac", "tx_new"} => chan["tx"] = "free"
       /\ pc \in InitLabels \ {"rx_std"} => chan["rx"] = "free"

\* The results of the last call, as the runs check them.
ResultInv == StopAllowsStart /\ StartedMeansRunning

AudioInv ==
  /\ ControlInv /\ InitInv /\ RunInv /\ CleanInv
  /\ WholeWhenInitialized /\ VolumeIsApplied /\ NoChannelLeak /\ ResultInv

-----------------------------------------------------------------------------
(* The volume.                                                             *)

\* A volume that is cut to 100 gives the same register value, which fits.
LEMMA VolumeRegTyped ==
  ASSUME NEW v \in UInt8
  PROVE  /\ AtMost(100, v) \in 0..100
         /\ VolumeReg(v) \in UInt8
         /\ VolumeReg(AtMost(100, v)) = VolumeReg(v)
  BY DEF VolumeReg, AtMost, UInt8

-----------------------------------------------------------------------------
(* One step.                                                               *)

\* A DAC that init has configured, or that a reset has cleared.
LEMMA DacTyped ==
  ASSUME NEW v \in UInt8
  PROVE  /\ [config |-> "configured", out |-> TRUE, volume |-> v]
              \in [config : Configs, out : BOOLEAN, volume : UInt8]
         /\ [config |-> "reset", out |-> FALSE, volume |-> v]
              \in [config : Configs, out : BOOLEAN, volume : UInt8]
         /\ [config : {"partial"}, out : BOOLEAN, volume : {v}]
              \subseteq [config : Configs, out : BOOLEAN, volume : UInt8]
  BY Zenon DEF Configs

\* Every step keeps the types of the driver.
LEMMA DriverStep ==
  ASSUME DriverOK, [Next]_vars
  PROVE  DriverOK'
  <1> USE DEF DriverOK, Dirs, Configs, Calls, Labels, Enter, Return, At, Goto,
         Works, Fails, Reaches, Misses, audio_ctx, codecs, control
  <1>1. CASE AudioInit
    BY <1>1 DEF AudioInit
  <1>2. CASE InitBus
    BY <1>2 DEF InitBus
  <1>3. CASE InitAdc
    BY <1>3 DEF InitAdc
  <1>4. CASE InitDac
    <2>1. volume \in UInt8 /\ 0 \in UInt8
      BY DEF UInt8
    <2>2. VolumeReg(volume) \in UInt8
      BY <2>1, VolumeRegTyped
    <2>3. dac' \in [config : Configs, out : BOOLEAN, volume : UInt8]
      <3>1. CASE dac' = [config |-> "configured", out |-> TRUE, volume |-> VolumeReg(volume)]
        BY <3>1, <2>2, DacTyped
      <3>2. CASE dac' = [config |-> "reset", out |-> FALSE, volume |-> 0]
        BY <3>2, <2>1, DacTyped
      <3>3. CASE dac' \in [config : {"partial"}, out : BOOLEAN, volume : {0}]
        BY <3>3, <2>1, DacTyped, Zenon
      <3> QED
        BY <1>4, <3>1, <3>2, <3>3 DEF InitDac
    <2> QED
      BY <1>4, <2>3 DEF InitDac
  <1>5. CASE NewChannel("tx", "tx_new", "tx_std")
    BY <1>5, ZenonT(30) DEF NewChannel
  <1>6. CASE InitTx
    BY <1>6, ZenonT(30) DEF InitTx, InitStd
  <1>7. CASE NewChannel("rx", "rx_new", "rx_std")
    BY <1>7, ZenonT(30) DEF NewChannel
  <1>8. CASE InitRx
    BY <1>8 DEF InitRx, InitStd
  <1>9. CASE AudioStart
    BY <1>9 DEF AudioStart
  <1>10. CASE Enable("tx", "tx_on", "rx_on")
    BY <1>10, ZenonT(30) DEF Enable
  <1>11. CASE Enable("rx", "rx_on", "out_on")
    BY <1>11, ZenonT(30) DEF Enable
  <1>12. CASE EnableOutput
    BY <1>12 DEF EnableOutput, SetOutput
  <1>13. CASE AudioStop
    BY <1>13 DEF AudioStop
  <1>14. CASE DisableOutput
    BY <1>14 DEF DisableOutput, SetOutput
  <1>15. CASE DisableTx
    BY <1>15 DEF DisableTx, Disable
  <1>16. CASE DisableRx
    BY <1>16 DEF DisableRx, Disable
  <1>17. CASE AudioDeinit
    BY <1>17 DEF AudioDeinit
  <1>18. CASE AudioDeinitOff
    BY <1>18 DEF AudioDeinitOff
  <1>19. CASE DeleteChannel("tx", "tx_del", "rx_del")
    BY <1>19 DEF DeleteChannel
  <1>20. CASE DeleteChannel("rx", "rx_del", "adc_reset")
    BY <1>20 DEF DeleteChannel
  <1>21. CASE ResetAdc
    BY <1>21 DEF ResetAdc
  <1>22. CASE MuteDac
    BY <1>22 DEF MuteDac, SetOutput
  <1>23. CASE ResetDac
    <2>1. dac' \in [config : Configs, out : BOOLEAN, volume : UInt8]
      <3>1. 0 \in UInt8
        BY DEF UInt8
      <3>2. CASE dac' = [config |-> "reset", out |-> FALSE, volume |-> 0]
        BY <3>1, <3>2, DacTyped
      <3> QED
        BY <1>23, <3>2 DEF ResetDac
    <2> QED
      BY <1>23, <2>1 DEF ResetDac
  <1>24. CASE DeleteBus
    BY <1>24 DEF DeleteBus
  <1>25. CASE SetVolume
    <2>1. PICK v \in Volumes : SetVolume!(v)
      BY <1>25 DEF SetVolume
    <2>2. v \in UInt8
      BY ConstantsAssumption DEF ConstantsAssumption
    <2>3. AtMost(100, v) \in 0..100 /\ VolumeReg(v) \in UInt8
      BY <2>2, VolumeRegTyped
    <2> QED
      BY <2>1, <2>3, ZenonT(30)
  <1>26. CASE UNCHANGED vars
    BY <1>26 DEF vars, audio_ctx, codecs, control
  <1> QED
    BY <1>1, <1>2, <1>3, <1>4, <1>5, <1>6, <1>7, <1>8, <1>9, <1>10, <1>11, <1>12, <1>13,
       <1>14, <1>15, <1>16, <1>17, <1>18, <1>19, <1>20, <1>21, <1>22, <1>23, <1>24, <1>25, <1>26
       DEF Next, Initializing, Starting, Stopping, Deinitializing

\* A result is a call and whether it went well.
LEMMA ReturnTyped ==
  ASSUME NEW name \in Calls, NEW ok \in BOOLEAN, Return(name, ok)
  PROVE  last' \in [call : Calls, ok : BOOLEAN]
  BY Zenon DEF Return

\* A step records the result of a call that exists.
LEMMA ResultStep ==
  ASSUME TypeOK, [Next]_vars
  PROVE  last' \in [call : Calls, ok : BOOLEAN]
  <1> USE ReturnTyped DEF TypeOK, Calls, Goto, Enter
  <1>1. CASE Initializing
    BY <1>1 DEF Initializing, AudioInit, InitBus, InitAdc, InitDac, NewChannel,
                InitTx, InitRx, InitStd
  <1>2. CASE Starting
    BY <1>2 DEF Starting, AudioStart, Enable, EnableOutput
  <1>3. CASE Stopping
    BY <1>3 DEF Stopping, AudioStop, DisableOutput, DisableTx, DisableRx
  <1>4. CASE Deinitializing
    BY <1>4 DEF Deinitializing, AudioDeinit, AudioDeinitOff, DeleteChannel,
                ResetAdc, MuteDac, ResetDac, DeleteBus
  <1>5. CASE SetVolume
    BY <1>5 DEF SetVolume
  <1>6. CASE UNCHANGED vars
    BY <1>6 DEF vars, control
  <1> QED
    BY <1>1, <1>2, <1>3, <1>4, <1>5, <1>6 DEF Next

\* Every step keeps the invariant.
LEMMA AudioStep ==
  ASSUME DriverOK, AudioInv, [Next]_vars
  PROVE  AudioInv'
  <1> USE DEF DriverOK, Dirs, Configs, Enter, Return, At, Goto,
         Works, Fails, Reaches, Misses, audio_ctx, codecs, control,
         InitLabels, StartLabels, StopLabels, DeinitLabels
  <1> USE DEF AudioInv, ControlInv, InitInv, RunInv, CleanInv, ResultInv,
         WholeWhenInitialized, VolumeIsApplied, NoChannelLeak, StopAllowsStart,
         StartedMeansRunning, MayTransfer
  <1>1. CASE AudioInit
    BY <1>1 DEF AudioInit
  <1>2. CASE InitBus
    BY <1>2 DEF InitBus
  <1>3. CASE InitAdc
    BY <1>3 DEF InitAdc
  <1>4. CASE InitDac
    BY <1>4, VolumeRegTyped DEF InitDac
  <1>5. CASE NewChannel("tx", "tx_new", "tx_std")
    BY <1>5 DEF NewChannel
  <1>6. CASE InitTx
    BY <1>6 DEF InitTx, InitStd
  <1>7. CASE NewChannel("rx", "rx_new", "rx_std")
    BY <1>7 DEF NewChannel
  <1>8. CASE InitRx
    BY <1>8 DEF InitRx, InitStd
  <1>9. CASE AudioStart
    BY <1>9 DEF AudioStart
  <1>10. CASE Enable("tx", "tx_on", "rx_on")
    BY <1>10 DEF Enable
  <1>11. CASE Enable("rx", "rx_on", "out_on")
    BY <1>11 DEF Enable
  <1>12. CASE EnableOutput
    BY <1>12 DEF EnableOutput, SetOutput
  <1>13. CASE AudioStop
    BY <1>13 DEF AudioStop
  <1>14. CASE DisableOutput
    BY <1>14 DEF DisableOutput, SetOutput
  <1>15. CASE DisableTx
    BY <1>15 DEF DisableTx, Disable
  <1>16. CASE DisableRx
    BY <1>16 DEF DisableRx, Disable
  <1>17. CASE AudioDeinit
    BY <1>17 DEF AudioDeinit
  <1>18. CASE AudioDeinitOff
    BY <1>18 DEF AudioDeinitOff
  <1>19. CASE DeleteChannel("tx", "tx_del", "rx_del")
    BY <1>19 DEF DeleteChannel
  <1>20. CASE DeleteChannel("rx", "rx_del", "adc_reset")
    BY <1>20 DEF DeleteChannel
  <1>21. CASE ResetAdc
    BY <1>21 DEF ResetAdc
  <1>22. CASE MuteDac
    BY <1>22 DEF MuteDac, SetOutput
  <1>23. CASE ResetDac
    BY <1>23 DEF ResetDac
  <1>24. CASE DeleteBus
    BY <1>24 DEF DeleteBus
  <1>25. CASE SetVolume
    BY <1>25, VolumeRegTyped, ConstantsAssumption DEF SetVolume
  <1>26. CASE UNCHANGED vars
    BY <1>26 DEF vars, audio_ctx, codecs, control
  <1> QED
    BY <1>1, <1>2, <1>3, <1>4, <1>5, <1>6, <1>7, <1>8, <1>9, <1>10, <1>11, <1>12, <1>13,
       <1>14, <1>15, <1>16, <1>17, <1>18, <1>19, <1>20, <1>21, <1>22, <1>23, <1>24, <1>25, <1>26
       DEF Next, Initializing, Starting, Stopping, Deinitializing

-----------------------------------------------------------------------------
(* The theorems.                                                           *)

\* Before audio_init nothing is allocated and nothing runs.
LEMMA AudioInitial ==
  Init => TypeOK /\ AudioInv
  <1> SUFFICES ASSUME Init PROVE TypeOK /\ AudioInv
    OBVIOUS
  <1> USE DEF Init, Dirs
  <1>1. dac \in [config : Configs, out : BOOLEAN, volume : UInt8]
    <2>1. 0 \in UInt8
      BY DEF UInt8
    <2> QED
      BY <2>1, DacTyped
  <1>2. last \in [call : Calls, ok : BOOLEAN]
    BY Zenon DEF Calls
  <1>3. TypeOK
    <2>1. /\ initialized \in BOOLEAN /\ bus \in BOOLEAN /\ faulty \in BOOLEAN
          /\ handle \in [Dirs -> BOOLEAN]
          /\ chan \in [Dirs -> {"free", "created", "ready", "running"}]
          /\ adc \in Configs /\ call \in Calls /\ pc \in Labels
      BY Zenon DEF Configs, Calls, Labels
    <2>2. volume \in 0..100
      OBVIOUS
    <2> QED
      BY <1>1, <1>2, <2>1, <2>2 DEF TypeOK, DriverOK
  <1>4. ControlInv /\ InitInv /\ RunInv
    BY DEF ControlInv, InitInv, RunInv, InitLabels, StartLabels, StopLabels, DeinitLabels
  <1>5. CleanInv
    <2>1. dac.config = "reset" /\ dac.out = FALSE
      OBVIOUS
    <2> QED
      BY <2>1 DEF CleanInv, InitLabels, DeinitLabels
  <1>6. WholeWhenInitialized /\ VolumeIsApplied /\ NoChannelLeak /\ ResultInv
    BY DEF WholeWhenInitialized, VolumeIsApplied, NoChannelLeak, ResultInv,
           StopAllowsStart, StartedMeansRunning
  <1> QED
    BY <1>3, <1>4, <1>5, <1>6 DEF AudioInv

\* The types and the invariant hold, whatever fails.
THEOREM AudioInvariant == Spec => [](TypeOK /\ AudioInv)
  <1>1. Init => TypeOK /\ AudioInv
    BY AudioInitial
  <1>2. TypeOK /\ AudioInv /\ [Next]_vars => TypeOK' /\ AudioInv'
    BY DriverStep, ResultStep, AudioStep DEF TypeOK
  <1> QED
    BY <1>1, <1>2, PTL DEF Spec

\* A driver that says it is initialized is so in all its parts (audio_driver_init).
THEOREM InitializedIsWhole == Spec => []WholeWhenInitialized
  BY AudioInvariant, PTL DEF AudioInv

\* audio_stop undoes a start that failed half-way.
THEOREM StopUndoesStart == Spec => []StopAllowsStart
  BY AudioInvariant, PTL DEF AudioInv, ResultInv

\* ESP_OK of audio_start means that both directions run.
THEOREM StartedRuns == Spec => []StartedMeansRunning
  BY AudioInvariant, PTL DEF AudioInv, ResultInv

\* current_volume in es8311.c is what the register of the DAC says.
THEOREM VolumeAgrees == Spec => []VolumeIsApplied
  BY AudioInvariant, PTL DEF AudioInv

\* No I2S channel is taken without a handle to give it back with.
THEOREM ChannelsAreNamed == Spec => []NoChannelLeak
  BY AudioInvariant, PTL DEF AudioInv

\* Without failures, a driver that is off leaves nothing behind.
THEOREM OffIsClean == Spec => []CleanWhenOff
  <1>1. AudioInv => CleanWhenOff
    BY DEF AudioInv, CleanInv, CleanWhenOff
  <1> QED
    BY <1>1, AudioInvariant, PTL

-----------------------------------------------------------------------------
(* The refinement of AudioPath.                                            *)

\* No channel runs in a driver that is off, whatever an init has left there.
OffInv == ~initialized => \A d \in Dirs : chan[d] # "running"

PathInv == TypeOK /\ AudioInv /\ OffInv

\* A step of the path, or none.
PathStep == [Path!Next]_(Path!vars)

OpenSet == {d \in Dirs : MayTransfer(d)}
RunningSet == {d \in Dirs : chan[d] = "running"}

\* A step that opens, closes, starts and stops nothing, and returns nothing
\* or a failure.
LEMMA QuietStep ==
  ASSUME initialized' = initialized,
         \A d \in Dirs : MayTransfer(d)' = MayTransfer(d),
         \A d \in Dirs : (chan[d] = "running")' = (chan[d] = "running"),
         \/ UNCHANGED <<call, last>>
         \/ call = "init" /\ Return("init", FALSE)
         \/ call = "start" /\ Return("start", FALSE)
  PROVE  PathStep
  <1>1. OpenSet' = OpenSet /\ RunningSet' = RunningSet
    BY DEF OpenSet, RunningSet, Dirs
  <1> QED
    BY <1>1 DEF PathStep, Path!Next, Path!vars, Path!path, Path!Fail, Path!Return, Return,
                OpenSet, RunningSet

\* A call begins.
LEMMA CallStep ==
  ASSUME NEW c \in {"init", "start", "stop", "deinit"}, call = "none", call' = c,
         (c = "init") <=> ~initialized, UNCHANGED <<audio_ctx, chan, last>>
  PROVE  PathStep
  <1>1. OpenSet' = OpenSet /\ RunningSet' = RunningSet /\ initialized' = initialized
    BY DEF OpenSet, RunningSet, audio_ctx, MayTransfer
  <1> QED
    BY <1>1 DEF PathStep, Path!Next, Path!Call, Path!path, OpenSet, RunningSet

\* The steps of audio_driver_init: the last one opens both directions.
LEMMA PathInit ==
  ASSUME PathInv, Initializing
  PROVE  PathStep /\ OffInv'
  <1> USE DEF PathInv, TypeOK, DriverOK, AudioInv, ControlInv, InitLabels, OffInv, Goto, At
  <1>1. CASE AudioInit
    BY <1>1, CallStep DEF AudioInit, Enter, audio_ctx
  <1>2. CASE InitBus \/ InitAdc \/ InitDac
    <2>1. /\ call = "init" /\ ~initialized /\ UNCHANGED <<initialized, handle, chan>>
          /\ UNCHANGED <<call, last>> \/ Return("init", FALSE)
      BY <1>2 DEF InitBus, InitAdc, InitDac, audio_ctx
    <2> QED
      BY <2>1, QuietStep DEF MayTransfer
  <1>3. ASSUME NEW d \in Dirs, NEW here \in {"tx_new", "rx_new"}, NEW next,
               NewChannel(d, here, next)
        PROVE  PathStep /\ OffInv'
    <2>1. /\ call = "init" /\ ~initialized /\ UNCHANGED initialized
          /\ UNCHANGED <<call, last>> \/ Return("init", FALSE)
          /\ chan' = chan \/ chan' = [chan EXCEPT ![d] = "created"]
      BY <1>3 DEF NewChannel
    <2>2. \A e \in Dirs : chan[e] # "running" /\ chan'[e] # "running"
      BY <2>1
    <2> QED
      BY <2>1, <2>2, QuietStep DEF MayTransfer
  <1>4. CASE InitTx
    <2>1. /\ call = "init" /\ ~initialized /\ UNCHANGED initialized
          /\ UNCHANGED <<call, last>> \/ Return("init", FALSE)
          /\ chan' = chan \/ chan' = [chan EXCEPT !["tx"] = "ready"]
      BY <1>4 DEF InitTx, InitStd
    <2>2. \A e \in Dirs : chan[e] # "running" /\ chan'[e] # "running"
      BY <2>1
    <2> QED
      BY <2>1, <2>2, QuietStep DEF MayTransfer
  <1>5. CASE InitRx
    <2>1. /\ call = "init" /\ ~initialized /\ handle["tx"] /\ handle["rx"]
          /\ UNCHANGED handle
          /\ chan' = chan \/ chan' = [chan EXCEPT !["rx"] = "ready"]
      BY <1>5 DEF InitRx, InitStd, InitInv
    <2>2. \A e \in Dirs : chan[e] # "running" /\ chan'[e] # "running"
      BY <2>1
    <2>3. CASE Return("init", FALSE) /\ UNCHANGED initialized
      BY <2>1, <2>2, <2>3, QuietStep DEF MayTransfer
    <2>4. CASE Return("init", TRUE) /\ initialized' = TRUE
      <3>1. OpenSet' = Dirs /\ RunningSet' = RunningSet
        BY <2>1, <2>2, <2>4 DEF OpenSet, RunningSet, MayTransfer, Dirs
      <3>2. Path!InitDone
        BY <2>1, <2>4, <3>1 DEF Path!InitDone, Path!Return, Return, OpenSet, RunningSet
      <3> QED
        BY <2>4, <3>2 DEF PathStep, Path!Next
    <2> QED
      BY <1>5, <2>3, <2>4 DEF InitRx, InitStd
  <1> QED
    BY <1>1, <1>2, <1>3, <1>4, <1>5 DEF Initializing, Dirs

\* The steps of audio_start.
LEMMA PathStart ==
  ASSUME PathInv, Starting
  PROVE  PathStep /\ OffInv'
  <1> USE DEF PathInv, TypeOK, DriverOK, AudioInv, ControlInv, StartLabels, OffInv, Goto, At
  <1>1. CASE AudioStart
    BY <1>1, CallStep DEF AudioStart, Enter, audio_ctx
  <1>2. ASSUME NEW d \in Dirs, NEW here \in {"tx_on", "rx_on"}, NEW next, Enable(d, here, next)
        PROVE  PathStep /\ OffInv'
    <2>1. /\ call = "start" /\ initialized /\ handle[d] /\ UNCHANGED <<initialized, handle>>
      BY <1>2 DEF Enable, audio_ctx, WholeWhenInitialized, MayTransfer
    <2>2. CASE chan[d] = "ready" /\ chan' = [chan EXCEPT ![d] = "running"]
               /\ UNCHANGED <<call, last>>
      <3>1. d \in OpenSet \ RunningSet /\ OpenSet' = OpenSet
        BY <2>1, <2>2 DEF OpenSet, RunningSet, MayTransfer
      <3>2. RunningSet' = RunningSet \cup {d}
        BY <2>2 DEF RunningSet
      <3>3. Path!Run(d)
        BY <2>1, <2>2, <3>1, <3>2 DEF Path!Run, OpenSet, RunningSet
      <3> QED
        BY <2>1, <3>3 DEF PathStep, Path!Next
    <2>3. CASE chan' = chan /\ Return("start", FALSE)
      BY <2>1, <2>3, QuietStep DEF MayTransfer
    <2> QED
      BY <1>2, <2>1, <2>2, <2>3 DEF Enable
  <1>3. CASE EnableOutput
    <2>1. /\ call = "start" /\ initialized /\ Return("start", TRUE)
          /\ UNCHANGED <<initialized, handle, chan>>
          /\ chan["tx"] = "running" /\ chan["rx"] = "running"
      BY <1>3 DEF EnableOutput, audio_ctx, RunInv
    <2>2. OpenSet' = OpenSet /\ RunningSet = Dirs /\ RunningSet' = Dirs
      BY <2>1 DEF OpenSet, RunningSet, MayTransfer, Dirs
    <2>3. Path!StartDone
      BY <2>1, <2>2 DEF Path!StartDone, Path!Return, Path!path, Return, OpenSet, RunningSet
    <2> QED
      BY <2>1, <2>3 DEF PathStep, Path!Next
  <1> QED
    BY <1>1, <1>2, <1>3 DEF Starting, Dirs

\* The steps of audio_stop, in deinit too: the last direction stops with the
\* return of stop.
LEMMA PathStop ==
  ASSUME PathInv, Stopping
  PROVE  PathStep /\ OffInv'
  <1> USE DEF PathInv, TypeOK, DriverOK, AudioInv, ControlInv, StopLabels, OffInv, Goto, At
  <1>1. CASE AudioStop
    BY <1>1, CallStep DEF AudioStop, Enter, audio_ctx
  <1>2. CASE DisableOutput
    BY <1>2, QuietStep DEF DisableOutput, audio_ctx, MayTransfer
  <1>3. ASSUME NEW d \in Dirs, call \in {"stop", "deinit"}, initialized,
               UNCHANGED <<audio_ctx, call, last>>,
               chan' = IF handle[d] /\ chan[d] = "running"
                       THEN [chan EXCEPT ![d] = "ready"] ELSE chan
        PROVE  PathStep /\ OffInv'
    <2>1. UNCHANGED <<initialized, handle>>
      BY <1>3 DEF audio_ctx
    <2>2. CASE chan[d] = "running" /\ chan' = [chan EXCEPT ![d] = "ready"]
      <3>1. OpenSet' = OpenSet /\ RunningSet' = RunningSet \ {d} /\ d \in RunningSet
        BY <2>1, <2>2 DEF OpenSet, RunningSet, MayTransfer
      <3>2. Path!Halt(d)
        BY <1>3, <2>1, <3>1 DEF Path!Halt, OpenSet, RunningSet
      <3> QED
        BY <1>3, <2>1, <3>2 DEF PathStep, Path!Next
    <2>3. CASE chan' = chan
      BY <1>3, <2>1, <2>3, QuietStep DEF MayTransfer
    <2> QED
      BY <1>3, <2>2, <2>3
  <1>4. CASE DisableTx
    BY <1>3, <1>4 DEF DisableTx, Disable, Dirs
  <1>5. CASE DisableRx
    <2>1. /\ call \in {"stop", "deinit"} /\ initialized /\ UNCHANGED audio_ctx
          /\ chan' = IF handle["rx"] /\ chan["rx"] = "running"
                     THEN [chan EXCEPT !["rx"] = "ready"] ELSE chan
          /\ \/ UNCHANGED <<call, last>>
             \/ call = "stop" /\ Return("stop", TRUE)
          /\ chan["tx"] # "running"
      BY <1>5 DEF DisableRx, Disable, RunInv
    <2>2. CASE UNCHANGED <<call, last>>
      BY <1>3, <2>1, <2>2 DEF Dirs
    <2>3. CASE call = "stop" /\ Return("stop", TRUE)
      <3>1. \A d \in Dirs : chan[d] = "running" => handle[d]
        BY DEF NoChannelLeak
      <3>2. OpenSet' = OpenSet /\ RunningSet' = {} /\ initialized' = initialized
        BY <2>1, <3>1 DEF OpenSet, RunningSet, MayTransfer, audio_ctx, Dirs
      <3>3. Path!StopDone
        BY <2>3, <3>2 DEF Path!StopDone, Path!Return, Return, OpenSet, RunningSet
      <3> QED
        BY <2>1, <3>2, <3>3 DEF PathStep, Path!Next
    <2> QED
      BY <2>1, <2>2, <2>3
  <1> QED
    BY <1>1, <1>2, <1>4, <1>5 DEF Stopping

\* The rest of audio_driver_deinit.
LEMMA PathDeinit ==
  ASSUME PathInv, Deinitializing
  PROVE  PathStep /\ OffInv'
  <1> USE DEF PathInv, TypeOK, DriverOK, AudioInv, ControlInv, DeinitLabels, OffInv, Goto, At
  <1>1. CASE AudioDeinit
    BY <1>1, CallStep DEF AudioDeinit, Enter, audio_ctx
  <1>2. CASE AudioDeinitOff
    <2>1. /\ call = "none" /\ ~initialized /\ Return("deinit", TRUE)
          /\ UNCHANGED <<initialized, handle, chan>>
      BY <1>2 DEF AudioDeinitOff, audio_ctx
    <2>2. OpenSet' = OpenSet /\ RunningSet' = RunningSet
      BY <2>1 DEF OpenSet, RunningSet, MayTransfer
    <2>3. Path!DeinitOff
      BY <2>1, <2>2 DEF Path!DeinitOff, Path!path, Return, OpenSet, RunningSet
    <2> QED
      BY <2>1, <2>3 DEF PathStep, Path!Next
  <1>3. ASSUME NEW d \in Dirs, NEW here \in {"tx_del", "rx_del"}, NEW next,
               DeleteChannel(d, here, next)
        PROVE  PathStep /\ OffInv'
    <2>1. /\ call = "deinit" /\ initialized /\ UNCHANGED <<call, last, initialized>>
          /\ handle' = [handle EXCEPT ![d] = FALSE]
          /\ chan' = IF handle[d] /\ chan[d] # "running"
                     THEN [chan EXCEPT ![d] = "free"] ELSE chan
          /\ \A e \in Dirs : chan[e] # "running"
      BY <1>3 DEF DeleteChannel, RunInv, Dirs
    <2>2. RunningSet = {} /\ RunningSet' = {}
      BY <2>1 DEF RunningSet
    <2>3. CASE handle[d]
      <3>1. OpenSet' = OpenSet \ {d} /\ d \in OpenSet
        BY <2>1, <2>3 DEF OpenSet, MayTransfer
      <3>2. Path!Release(d)
        BY <2>1, <2>2, <3>1 DEF Path!Release, OpenSet, RunningSet
      <3> QED
        BY <2>1, <3>2 DEF PathStep, Path!Next
    <2>4. CASE ~handle[d]
      BY <2>1, <2>4, QuietStep DEF MayTransfer
    <2> QED
      BY <2>3, <2>4
  <1>4. CASE ResetAdc \/ MuteDac \/ ResetDac
    BY <1>4, QuietStep DEF ResetAdc, MuteDac, ResetDac, audio_ctx, MayTransfer
  <1>5. CASE DeleteBus
    <2>1. /\ call = "deinit" /\ Return("deinit", TRUE) /\ initialized' = FALSE
          /\ UNCHANGED <<handle, chan>>
          /\ \A d \in Dirs : ~handle[d] /\ chan[d] # "running"
      BY <1>5 DEF DeleteBus, CleanInv, RunInv, Dirs
    <2>2. OpenSet = {} /\ OpenSet' = {} /\ RunningSet = {} /\ RunningSet' = {}
      BY <2>1 DEF OpenSet, RunningSet, MayTransfer
    <2>3. Path!DeinitDone
      BY <2>1, <2>2 DEF Path!DeinitDone, Path!Return, Return, OpenSet, RunningSet
    <2> QED
      BY <2>1, <2>3 DEF PathStep, Path!Next
  <1> QED
    BY <1>1, <1>2, <1>3, <1>4, <1>5 DEF Deinitializing, Dirs

\* Each step of the driver is one of the path, or none.
LEMMA PathImplements ==
  ASSUME PathInv, [Next]_vars
  PROVE  PathStep /\ OffInv'
  <1>1. CASE SetVolume \/ UNCHANGED vars
    <2>1. UNCHANGED <<initialized, handle, chan, call, last>>
      BY <1>1 DEF SetVolume, vars, audio_ctx, control
    <2> QED
      BY <2>1, QuietStep DEF MayTransfer, PathInv, OffInv
  <1> QED
    BY <1>1, PathInit, PathStart, PathStop, PathDeinit DEF Next

\* Seen from outside, init opens both directions or none, samples flow only in
\* a direction that is open, and deinit closes what no longer runs; a start that
\* fails may leave one direction running, which stop and deinit end.
THEOREM DriverImplementsPath == Spec => KeepsPath
  <1>1. Init => OffInv /\ Path!Init
    BY DEF Init, OffInv, Path!Init, MayTransfer, Dirs
  <1>2. TypeOK /\ AudioInv /\ OffInv /\ [Next]_vars => OffInv' /\ [Path!Next]_(Path!vars)
    BY PathImplements DEF PathInv, PathStep
  <1> QED
    BY <1>1, <1>2, AudioInvariant, PTL DEF Spec, KeepsPath, Path!Spec

=============================================================================
