----------------------------- MODULE AudioDriver -----------------------------
(***************************************************************************)
(* components/audio_driver: bringing up the I2C bus, the two codecs and    *)
(* the two I2S channels, starting, stopping and taking them down again.    *)
(*                                                                         *)
(* Each call is a sequence of calls into the ESP-IDF drivers, a step each, *)
(* and each of those may fail.  init and start return at the first failure *)
(* and undo nothing; stop and deinit ignore failures.  One task calls the  *)
(* driver; audio_read and audio_write change nothing in it and are         *)
(* represented by the condition under which they reach a channel.          *)
(***************************************************************************)
EXTENDS Codecs

CONSTANTS
  Volumes,  \* the arguments of audio_set_volume
  Faults    \* which driver calls may fail: of i2c_new_master_bus, of a
            \* register access, of I2S channel set-up, of enabling a channel

AllFaults == {"bus", "i2c", "channel", "enable"}

ASSUME ConstantsAssumption == Volumes \subseteq UInt8 /\ Faults \subseteq AllFaults

VARIABLES
  initialized,  \* s_audio_ctx.initialized
  bus,          \* i2c_bus_handle is set, and the I2C port taken
  handle,       \* whether tx_handle and rx_handle are set
  chan,         \* the I2S channels: "free", "created", "ready" or "running"
  adc,          \* the ES7210: how far it is configured
  dac,          \* the ES8311: the same, its output and its volume register
  volume,       \* current_volume in es8311.c
  call, pc,     \* the API call under way and its next step
  last,         \* the last call that changed something, and its result
  faulty        \* a driver call has failed

audio_ctx == <<initialized, bus, handle, volume>>
codecs == <<adc, dac>>
control == <<call, pc, last, faulty>>
vars == <<audio_ctx, chan, codecs, control>>

Dirs == {"tx", "rx"}
Configs == {"reset", "partial", "configured"}
Calls == {"none", "init", "deinit", "start", "stop", "set_volume"}
Labels == {"idle", "bus", "adc", "dac", "tx_new", "tx_std", "rx_new", "rx_std",
           "tx_on", "rx_on", "out_on", "out_off", "tx_off", "rx_off",
           "tx_del", "rx_del", "adc_reset", "dac_mute", "dac_reset", "bus_del",
           "volume"}

-----------------------------------------------------------------------------
(* Calls and steps.                                                        *)

Enter(name, label) ==
  /\ pc = "idle"
  /\ call' = name /\ pc' = label
  /\ UNCHANGED <<audio_ctx, chan, codecs, last, faulty>>

Return(name, ok) ==
  /\ pc' = "idle" /\ call' = "none"
  /\ last' = [call |-> name, ok |-> ok]

At(label) == pc = label
Goto(label) == pc' = label /\ UNCHANGED <<call, last>>

Works == UNCHANGED faulty
Fails(fault) == fault \in Faults /\ faulty' = TRUE

\* A register write reaches its codec or it does not; that one reaches it and
\* still reports a failure, after a late timeout, is left out.  Without a bus,
\* i2c_master_bus_add_device refuses.
Reaches == bus /\ Works
Misses == (~bus /\ Works) \/ (bus /\ Fails("i2c"))

-----------------------------------------------------------------------------
(* audio_driver_init.  Called again when initialized, it does nothing.     *)

AudioInit == ~initialized /\ Enter("init", "bus")

\* i2c_new_master_bus refuses a port that is taken.
InitBus ==
  /\ At("bus")
  /\ \/ ~bus /\ bus' = TRUE /\ Works /\ Goto("adc")
     \/ bus /\ UNCHANGED bus /\ Works /\ Return("init", FALSE)
     \/ ~bus /\ UNCHANGED bus /\ Fails("bus") /\ Return("init", FALSE)
  /\ UNCHANGED <<initialized, handle, volume, chan, codecs>>

\* es7210_init: read the chip's number, reset it, write its registers.
InitAdc ==
  /\ At("adc")
  /\ \/ Reaches /\ adc' = "configured" /\ Goto("dac")
     \/ Misses /\ adc' \in {adc, "reset", "partial"} /\ Return("init", FALSE)
  /\ UNCHANGED <<audio_ctx, chan, dac>>

\* es8311_init, the same, with the output on and the volume last.
InitDac ==
  /\ At("dac")
  /\ \/ /\ Reaches /\ Goto("tx_new")
        /\ dac' = [config |-> "configured", out |-> TRUE, volume |-> VolumeReg(volume)]
     \/ /\ Misses /\ Return("init", FALSE)
        /\ dac' \in {dac, [config |-> "reset", out |-> FALSE, volume |-> 0]}
                    \cup [config : {"partial"}, out : BOOLEAN, volume : {0}]
  /\ UNCHANGED <<audio_ctx, chan, adc>>

\* i2s_new_channel, for one direction.
NewChannel(d, here, next) ==
  /\ At(here)
  /\ \/ /\ chan[d] = "free" /\ Works /\ Goto(next)
        /\ chan' = [chan EXCEPT ![d] = "created"]
        /\ handle' = [handle EXCEPT ![d] = TRUE]
     \/ /\ (chan[d] # "free" /\ Works) \/ Fails("channel")
        /\ Return("init", FALSE)
        /\ UNCHANGED <<chan, handle>>
  /\ UNCHANGED <<initialized, bus, volume, codecs>>

\* i2s_channel_init_std_mode.
InitStd(d, here, next) ==
  /\ At(here)
  /\ \/ chan' = [chan EXCEPT ![d] = "ready"] /\ Works /\ next
     \/ Fails("channel") /\ Return("init", FALSE) /\ UNCHANGED <<chan, initialized>>
  /\ UNCHANGED <<bus, handle, volume, codecs>>

\* Mutant: initialized is set before the capture channel is there.
InitTxEarly == InitStd("tx", "tx_std", Goto("rx_new") /\ initialized' = TRUE)

InitTx == InitStd("tx", "tx_std", Goto("rx_new") /\ UNCHANGED initialized)

InitRx == InitStd("rx", "rx_std", Return("init", TRUE) /\ initialized' = TRUE)

-----------------------------------------------------------------------------
(* audio_start.  When not initialized, it does nothing.                    *)

AudioStart == initialized /\ Enter("start", "tx_on")

\* Mutant: the result is not looked at.
EnableAnyway(d, here, next) ==
  /\ At(here) /\ Goto(next)
  /\ \/ /\ handle[d] /\ chan[d] = "ready" /\ Works
        /\ chan' = [chan EXCEPT ![d] = "running"]
     \/ ~handle[d] /\ Works /\ UNCHANGED chan
     \/ /\ handle[d]
        /\ (chan[d] # "ready" /\ Works) \/ Fails("enable")
        /\ UNCHANGED chan
  /\ UNCHANGED <<audio_ctx, codecs>>

\* i2s_channel_enable refuses a channel that is not ready or runs already.
Enable(d, here, next) ==
  /\ At(here)
  /\ \/ /\ handle[d] /\ chan[d] = "ready" /\ Works /\ Goto(next)
        /\ chan' = [chan EXCEPT ![d] = "running"]
     \/ ~handle[d] /\ Works /\ Goto(next) /\ UNCHANGED chan
     \/ /\ handle[d]
        /\ (chan[d] # "ready" /\ Works) \/ Fails("enable")
        /\ Return("start", FALSE) /\ UNCHANGED chan
  /\ UNCHANGED <<audio_ctx, codecs>>

\* es8311_set_output_enable, whose result nobody looks at.
SetOutput(on) ==
  \/ Reaches /\ dac' = [dac EXCEPT !.out = on]
  \/ Misses /\ UNCHANGED dac

EnableOutput ==
  /\ At("out_on")
  /\ SetOutput(TRUE) /\ Return("start", TRUE)
  /\ UNCHANGED <<audio_ctx, chan, adc>>

-----------------------------------------------------------------------------
(* audio_stop and audio_driver_deinit, which calls it first.               *)

AudioStop == initialized /\ Enter("stop", "out_off")

DisableOutput ==
  /\ At("out_off")
  /\ SetOutput(FALSE) /\ Goto("tx_off")
  /\ UNCHANGED <<audio_ctx, chan, adc>>

\* i2s_channel_disable: a channel that does not run stays as it is, and one
\* that runs is always stopped (the driver reports no other failure).
Disable(d, here) ==
  /\ At(here)
  /\ chan' = IF handle[d] /\ chan[d] = "running"
             THEN [chan EXCEPT ![d] = "ready"] ELSE chan
  /\ Works
  /\ UNCHANGED <<audio_ctx, codecs>>

DisableTx == Disable("tx", "tx_off") /\ Goto("rx_off")

\* Mutant: the second block of audio_stop disables the first channel again.
DisableTxAgain ==
  /\ Disable("tx", "rx_off")
  /\ IF call = "stop" THEN Return("stop", TRUE) ELSE Goto("tx_del")

DisableRx ==
  /\ Disable("rx", "rx_off")
  /\ IF call = "stop" THEN Return("stop", TRUE) ELSE Goto("tx_del")

\* Mutant: the channels are deleted as they are.
AudioDeinitRunning == initialized /\ Enter("deinit", "tx_del")

AudioDeinit == initialized /\ Enter("deinit", "out_off")

\* When not initialized, deinit returns ESP_OK at once.
AudioDeinitOff ==
  /\ ~initialized /\ pc = "idle"
  /\ Return("deinit", TRUE) /\ Works
  /\ UNCHANGED <<audio_ctx, chan, codecs>>

\* i2s_del_channel refuses a channel that runs; the handle is cleared anyway.
DeleteChannel(d, here, next) ==
  /\ At(here) /\ Goto(next) /\ Works
  /\ chan' = IF handle[d] /\ chan[d] # "running"
             THEN [chan EXCEPT ![d] = "free"] ELSE chan
  /\ handle' = [handle EXCEPT ![d] = FALSE]
  /\ UNCHANGED <<initialized, bus, volume, codecs>>

\* Mutant: the bus is deleted before the codecs are reset.
ResetAdcNoBus ==
  /\ At("adc_reset") /\ Goto("dac_mute") /\ Works
  /\ bus' = FALSE
  /\ UNCHANGED <<initialized, handle, volume, chan, codecs>>

\* es7210_deinit.
ResetAdc ==
  /\ At("adc_reset") /\ Goto("dac_mute")
  /\ \/ Reaches /\ adc' = "reset"
     \/ Misses /\ UNCHANGED adc
  /\ UNCHANGED <<audio_ctx, chan, dac>>

\* es8311_deinit: the output off, then the reset.
MuteDac ==
  /\ At("dac_mute") /\ Goto("dac_reset")
  /\ SetOutput(FALSE)
  /\ UNCHANGED <<audio_ctx, chan, adc>>

ResetDac ==
  /\ At("dac_reset") /\ Goto("bus_del")
  /\ \/ Reaches /\ dac' = [config |-> "reset", out |-> FALSE, volume |-> 0]
     \/ Misses /\ UNCHANGED dac
  /\ UNCHANGED <<audio_ctx, chan, adc>>

DeleteBus ==
  /\ At("bus_del") /\ Return("deinit", TRUE) /\ Works
  /\ bus' = FALSE /\ initialized' = FALSE
  /\ UNCHANGED <<handle, volume, chan, codecs>>

-----------------------------------------------------------------------------
(* audio_set_volume, which does not ask whether the driver is initialized. *)

\* Mutant: the new value is kept although the codec did not take it.
SetVolumeAnyway ==
  \E v \in Volumes :
    /\ pc = "idle"
    /\ volume' = AtMost(100, v)
    /\ \/ Reaches /\ dac' = [dac EXCEPT !.volume = VolumeReg(v)]
       \/ Misses /\ UNCHANGED dac
    /\ UNCHANGED <<initialized, bus, handle, chan, adc, call, pc, last>>

SetVolume ==
  \E v \in Volumes :
    /\ pc = "idle"
    /\ \/ /\ Reaches
          /\ dac' = [dac EXCEPT !.volume = VolumeReg(v)]
          /\ volume' = AtMost(100, v)
       \/ Misses /\ UNCHANGED <<dac, volume>>
    /\ UNCHANGED <<initialized, bus, handle, chan, adc, call, pc, last>>

-----------------------------------------------------------------------------
Init ==
  /\ initialized = FALSE /\ bus = FALSE
  /\ handle = [d \in Dirs |-> FALSE] /\ chan = [d \in Dirs |-> "free"]
  /\ adc = "reset"
  /\ dac = [config |-> "reset", out |-> FALSE, volume |-> 0]
  /\ volume = 50
  /\ call = "none" /\ pc = "idle" /\ faulty = FALSE
  /\ last = [call |-> "none", ok |-> TRUE]

Initializing ==
  \/ AudioInit \/ InitBus \/ InitAdc \/ InitDac
  \/ NewChannel("tx", "tx_new", "tx_std") \/ InitTx
  \/ NewChannel("rx", "rx_new", "rx_std") \/ InitRx

Starting ==
  \/ AudioStart
  \/ Enable("tx", "tx_on", "rx_on") \/ Enable("rx", "rx_on", "out_on")
  \/ EnableOutput

Stopping == AudioStop \/ DisableOutput \/ DisableTx \/ DisableRx

Deinitializing ==
  \/ AudioDeinit \/ AudioDeinitOff
  \/ DeleteChannel("tx", "tx_del", "rx_del")
  \/ DeleteChannel("rx", "rx_del", "adc_reset")
  \/ ResetAdc \/ MuteDac \/ ResetDac \/ DeleteBus

Next == Initializing \/ Starting \/ Stopping \/ Deinitializing \/ SetVolume

Spec == Init /\ [][Next]_vars

-----------------------------------------------------------------------------
(* Properties.                                                             *)

\* Type correctness, of the driver and of what the calls return.
DriverOK ==
  /\ initialized \in BOOLEAN /\ bus \in BOOLEAN /\ faulty \in BOOLEAN
  /\ handle \in [Dirs -> BOOLEAN]
  /\ chan \in [Dirs -> {"free", "created", "ready", "running"}]
  /\ adc \in Configs
  /\ dac \in [config : Configs, out : BOOLEAN, volume : UInt8]
  /\ volume \in 0..100
  /\ call \in Calls /\ pc \in Labels

TypeOK == DriverOK /\ last \in [call : Calls, ok : BOOLEAN]

\* The condition under which audio_read and audio_write use a channel.
MayTransfer(d) == initialized /\ handle[d]

\* Whatever failed in earlier calls, a driver that says it is initialized is
\* so in all its parts, and audio_read and audio_write find a channel that is
\* set up, until deinit begins.
WholeWhenInitialized ==
  initialized /\ call # "deinit" =>
    /\ bus /\ adc = "configured" /\ dac.config = "configured"
    /\ \A d \in Dirs : MayTransfer(d) /\ chan[d] \in {"ready", "running"}

\* audio_stop undoes any start, a half-failed one too: after it, both channels
\* are in the state from which the next start succeeds; it follows
\* from WholeWhenInitialized and KeepsPath.
StopAllowsStart ==
  pc = "idle" /\ last.call = "stop" => \A d \in Dirs : chan[d] = "ready"

\* When audio_start says ESP_OK, both directions run; without a failure on
\* the I2C bus there is sound, too.
StartedMeansRunning ==
  pc = "idle" /\ last = [call |-> "start", ok |-> TRUE] =>
    /\ \A d \in Dirs : chan[d] = "running"
    /\ ~faulty => dac.out

\* audio_get_volume tells what the DAC plays: through failed writes, resets
\* and new initialisations, the value kept and the register agree.
VolumeIsApplied ==
  initialized /\ call # "deinit" => dac.volume = VolumeReg(volume)

\* No channel of the I2S peripheral is lost: one that is taken is named by its
\* handle, so that deinit can give it back and the next init can have it.
NoChannelLeak == \A d \in Dirs : chan[d] # "free" => handle[d]

\* As long as nothing fails, deinit leaves the hardware as it was before init,
\* both codecs in reset included, in whatever state it finds it.
CleanWhenOff ==
  pc = "idle" /\ ~initialized /\ ~faulty =>
    /\ ~bus /\ \A d \in Dirs : chan[d] = "free"
    /\ adc = "reset" /\ dac.config = "reset" /\ ~dac.out

\* The calls, seen from outside (AudioPath): init opens both directions at once
\* or neither, what runs is open, also half-way through a start that fails,
\* and deinit closes nothing that runs and leaves nothing open.
Path == INSTANCE AudioPath
          WITH on <- initialized,
               open <- {d \in Dirs : MayTransfer(d)},
               running <- {d \in Dirs : chan[d] = "running"}

KeepsPath == Path!Spec

-----------------------------------------------------------------------------
(* What the header says, and the code does not do.                         *)

\* audio_driver.h:67, "Deinitialize audio driver ... ESP_OK on success": after
\* it, nothing of the driver is left, and init can start from nothing.
DeinitReleases ==
  pc = "idle" /\ last = [call |-> "deinit", ok |-> TRUE] =>
    ~bus /\ \A d \in Dirs : chan[d] = "free"

=============================================================================
