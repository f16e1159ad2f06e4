--------------------------- MODULE UsbTasksProofs ---------------------------
(***************************************************************************)
(* Proofs about UsbTasks: what a task finds behind the pointer of          *)
(* usb_cmd_get_config, for every size of the array, every alphabet and     *)
(* any commands.                                                           *)
(***************************************************************************)
EXTENDS UsbTasks, SequenceTheorems, TLAPS

\* The types in three parts: the tasks and their commands, ...
QueueOK ==
  /\ stage \in {"off", "installed", "cleared", "created", "up", "down"}
  /\ driver \in BOOLEAN /\ task \in BOOLEAN
  /\ fifo \in Seq(Requests) /\ chunk \in Seq(Requests)
  /\ at \in Nat
  /\ sent \in Nat /\ done \in Nat /\ changes \in Nat /\ first \in Seq(Char)

\* ... the configuration, where the last cell of the array is never written
\* with anything but zero, ...
ConfigOK ==
  /\ server_url \in [Index -> Char \cup {0}] /\ configured \in BOOLEAN
  /\ server_url[UrlSize - 1] = 0

\* ... and the reader.
ReaderOK ==
  /\ reader \in [state : {"idle", "reading", "read"}, i : Nat, text : Seq(Char)]
  /\ ReadsInBounds

BoundsInv == QueueOK /\ ConfigOK /\ ReaderOK

\* The array holds the first n characters of the first URL, if it has as many;
\* and the whole of it with its terminating zero.
Holds(n) == \A i \in Index : i < n /\ i < Len(first) => server_url[i] = first[i + 1]

HoldsFirst ==
  /\ Holds(Len(first))
  /\ Len(first) \in Index /\ server_url[Len(first)] = 0

\* Commands are carried out only by a task, and there is none before
\* usb_cmd_init has cleared the context; one half done is still the next.
TaskInv ==
  /\ stage \in {"off", "installed", "cleared"} => ~task
  /\ ~task => chunk = <<>> /\ changes = 0
  /\ at > 0 => Accepts \/ Resets

\* While the configuration has changed at most once: nothing is configured
\* before the first URL is there as a whole, and it stays there.
FirstInv ==
  /\ changes = 0 => ~configured /\ at = 0
  /\ changes = 1 /\ at > 0 => ~configured
  /\ changes = 1 /\ at > 0 /\ Accepts =>
       /\ Request.url = first
       /\ Holds(at) /\ at <= Len(first) + 1
       /\ at = Len(first) + 1 => HoldsFirst
  /\ changes <= 1 /\ configured => HoldsFirst

\* What a reader has so far is the beginning of the first URL.
ReaderInv ==
  changes <= 1 /\ reader.state # "idle" =>
    /\ configured
    /\ reader.i = Len(reader.text) /\ reader.i <= Len(first)
    /\ \A k \in 1..reader.i : reader.text[k] = first[k]
    /\ reader.state = "read" => reader.i = Len(first)

ExactInv == BoundsInv /\ TaskInv /\ FirstInv /\ ReaderInv

-----------------------------------------------------------------------------
(* Types and bounds.                                                       *)

\* The next command has a URL, and one that is accepted fits with its zero.
LEMMA RequestTyped ==
  ASSUME QueueOK, chunk # <<>>
  PROVE  /\ Request.url \in Seq(Char)
         /\ Tail(chunk) \in Seq(Requests)
         /\ Accepts => Len(Request.url) \in 1..(UrlSize - 1)
  <1>1. chunk \in Seq(Requests)
    BY DEF QueueOK
  <1>2. Head(chunk) \in Requests /\ Tail(chunk) \in Seq(Requests)
    BY <1>1
  <1> QED
    BY <1>2, TasksAssumption DEF Request, Accepts, TasksAssumption

\* An array that init or RESET has cleared.
LEMMA NoUrlTyped == NoUrl \in [Index -> Char \cup {0}] /\ NoUrl[UrlSize - 1] = 0
  BY TasksAssumption DEF NoUrl, Index, TasksAssumption

\* Where handle_connect_to writes, and what.
LEMMA CopyTyped ==
  ASSUME QueueOK, Accepts
  PROVE  /\ at < Len(Request.url) => at \in 0..(UrlSize - 2) /\ Request.url[at + 1] \in Char
         /\ at = Len(Request.url) => at \in Index
  <1>1. Request.url \in Seq(Char) /\ Len(Request.url) \in 1..(UrlSize - 1)
    BY RequestTyped DEF Accepts
  <1> QED
    BY <1>1, TasksAssumption DEF QueueOK, Index, TasksAssumption

\* A step keeps the requests of a chunk, and what it leaves of them, requests.
LEMMA QueueStep ==
  ASSUME QueueOK, [Next]_vars
  PROVE  QueueOK'
  <1> USE DEF QueueOK
  <1>1. CASE Lifecycle
    <2>1. CASE InstallDriver \/ ClearContext \/ CreateTask \/ SetInitialized
      BY <2>1 DEF InstallDriver, ClearContext, CreateTask, SetInitialized, Stage, history
    <2>2. CASE Deinit
      <3>1. fifo' \in Seq(Requests)
        BY <2>2 DEF Deinit
      <3> QED
        BY <2>2, <3>1 DEF Deinit, Stage, history
    <2> QED
      BY <1>1, <2>1, <2>2 DEF Lifecycle
  <1>2. CASE ReadBytes
    BY <1>2 DEF ReadBytes, lifecycle, history
  <1>3. CASE CopyChar
    <2>1. Request.url \in Seq(Char)
      BY <1>3, RequestTyped DEF CopyChar, Accepts
    <2> QED
      BY <1>3, <2>1 DEF CopyChar, lifecycle
  <1>4. CASE Terminate
    BY <1>4 DEF Terminate, lifecycle, history
  <1>5. CASE SetConfigured \/ EndReset \/ HandleOther
    <2>1. chunk # <<>> /\ Carried
      BY <1>5 DEF SetConfigured, EndReset, HandleOther, Accepts, Resets
    <2>2. chunk' \in Seq(Requests) /\ done' \in Nat /\ at' \in Nat
      BY <2>1, RequestTyped DEF Carried
    <2>3. changes' \in Nat /\ UNCHANGED <<lifecycle, fifo, sent, first>>
      BY <1>5 DEF SetConfigured, EndReset, HandleOther
    <2> QED
      BY <2>2, <2>3 DEF lifecycle
  <1>9. CASE ZeroChar \/ ZeroFlag
    BY <1>9 DEF ZeroChar, ZeroFlag, BeginsToChange, lifecycle
  <1>6. CASE HostSends
    BY <1>6 DEF HostSends, lifecycle
  <1>7. CASE BeginRead \/ ReadChar
    BY <1>7 DEF BeginRead, ReadChar, lifecycle, history
  <1>8. CASE UNCHANGED vars
    BY <1>8 DEF vars, lifecycle, history
  <1> QED
    BY <1>1, <1>2, <1>3, <1>4, <1>5, <1>6, <1>7, <1>8, <1>9
       DEF Next, HandleCommand, HandleReset

\* A step keeps the URL array full size, with a NUL in its last place.
LEMMA ConfigStep ==
  ASSUME QueueOK, ConfigOK, [Next]_vars
  PROVE  ConfigOK'
  <1> USE TasksAssumption DEF ConfigOK, Index, TasksAssumption
  <1>1. CASE Lifecycle
    BY <1>1, NoUrlTyped DEF Lifecycle, InstallDriver, ClearContext, CreateTask,
                            SetInitialized, Deinit, config
  <1>2. CASE CopyChar
    BY <1>2, CopyTyped DEF CopyChar
  <1>3. CASE Terminate
    BY <1>3, CopyTyped DEF Terminate
  <1>4. CASE SetConfigured \/ HandleReset \/ HandleOther
    <2>1. CASE ZeroChar
      BY <2>1 DEF ZeroChar
    <2>2. CASE SetConfigured \/ ZeroFlag \/ EndReset \/ HandleOther
      BY <2>2 DEF SetConfigured, ZeroFlag, EndReset, HandleOther, config
    <2> QED
      BY <1>4, <2>1, <2>2 DEF HandleReset
  <1>5. CASE ReadBytes \/ HostSends \/ BeginRead \/ ReadChar
    BY <1>5 DEF ReadBytes, HostSends, BeginRead, ReadChar, config
  <1>6. CASE UNCHANGED vars
    BY <1>6 DEF vars, config
  <1> QED
    BY <1>1, <1>2, <1>3, <1>4, <1>5, <1>6 DEF Next, HandleCommand

\* What a step of the reader does with what it has read.
LEMMA ReaderMoves ==
  ASSUME ConfigOK, ReaderOK
  PROVE  /\ BeginRead => reader' = [state |-> "reading", i |-> 0, text |-> <<>>]
         /\ ReadChar /\ server_url[reader.i] = 0 =>
              reader' = [state |-> "read", i |-> reader.i, text |-> reader.text]
         /\ ReadChar /\ server_url[reader.i] # 0 =>
              /\ reader.i + 1 \in Index
              /\ server_url[reader.i] \in Char
              /\ reader' = [state |-> "reading", i |-> reader.i + 1,
                            text |-> Append(reader.text, server_url[reader.i])]
  <1>1. BeginRead => reader' = [state |-> "reading", i |-> 0, text |-> <<>>]
    BY DEF BeginRead, Idle
  <1>2. reader \in [state : {"idle", "reading", "read"}, i : Nat, text : Seq(Char)]
    BY DEF ReaderOK
  <1>3. ReadChar /\ server_url[reader.i] = 0 =>
          reader' = [state |-> "read", i |-> reader.i, text |-> reader.text]
    BY <1>2 DEF ReadChar
  <1>4. ASSUME ReadChar, server_url[reader.i] # 0
        PROVE  reader.i + 1 \in Index /\ server_url[reader.i] \in Char
    BY <1>4, TasksAssumption DEF ReadChar, ConfigOK, Index, TasksAssumption
  <1>5. ReadChar /\ server_url[reader.i] # 0 =>
          reader' = [state |-> "reading", i |-> reader.i + 1,
                     text |-> Append(reader.text, server_url[reader.i])]
    BY <1>2 DEF ReadChar
  <1> QED
    BY <1>1, <1>3, <1>4, <1>5

\* A step keeps the reader within the array.
LEMMA ReaderStep ==
  ASSUME ConfigOK, ReaderOK, [Next]_vars
  PROVE  ReaderOK'
  <1>1. CASE BeginRead
    <2>1. reader' = [state |-> "reading", i |-> 0, text |-> <<>>]
      BY <1>1, ReaderMoves
    <2> QED
      BY <2>1, TasksAssumption DEF ReaderOK, ReadsInBounds, Index, TasksAssumption
  <1>2. CASE ReadChar /\ server_url[reader.i] = 0
    <2>1. reader' = [state |-> "read", i |-> reader.i, text |-> reader.text]
      BY <1>2, ReaderMoves
    <2> QED
      BY <2>1 DEF ReaderOK, ReadsInBounds
  <1>3. CASE ReadChar /\ server_url[reader.i] # 0
    <2>1. /\ reader.i + 1 \in Index
          /\ Append(reader.text, server_url[reader.i]) \in Seq(Char)
          /\ reader' = [state |-> "reading", i |-> reader.i + 1,
                        text |-> Append(reader.text, server_url[reader.i])]
      BY <1>3, ReaderMoves DEF ReaderOK
    <2> QED
      BY <2>1 DEF ReaderOK, ReadsInBounds, Index
  <1>4. CASE UNCHANGED reader
    BY <1>4 DEF ReaderOK, ReadsInBounds
  <1>5. CASE Lifecycle
    BY <1>4, <1>5 DEF Lifecycle, InstallDriver, ClearContext, CreateTask, SetInitialized, Deinit
  <1>6. CASE ReadBytes \/ HandleCommand \/ HostSends
    BY <1>4, <1>6 DEF ReadBytes, HandleCommand, CopyChar, Terminate, SetConfigured,
                      HandleReset, ZeroChar, ZeroFlag, EndReset, HandleOther, HostSends
  <1> QED
    BY <1>1, <1>2, <1>3, <1>4, <1>5, <1>6 DEF Next, vars

\* At power on the array is empty and nobody reads it.
LEMMA BoundsInitial == Init => BoundsInv
  <1> SUFFICES ASSUME Init PROVE BoundsInv
    OBVIOUS
  <1>1. QueueOK
    <2>1. <<>> \in Seq(Requests) /\ <<>> \in Seq(Char)
      OBVIOUS
    <2> QED
      BY <2>1 DEF Init, QueueOK
  <1>2. ConfigOK
    BY NoUrlTyped DEF Init, ConfigOK
  <1>3. reader = [state |-> "idle", i |-> 0, text |-> <<>>]
    BY DEF Init, Idle
  <1>4. ReaderOK
    BY <1>3, TasksAssumption DEF ReaderOK, ReadsInBounds, Index, TasksAssumption
  <1> QED
    BY <1>1, <1>2, <1>4 DEF BoundsInv

\* A step keeps the three parts of the bounds together.
LEMMA BoundsStep ==
  ASSUME BoundsInv, [Next]_vars
  PROVE  BoundsInv'
  BY QueueStep, ConfigStep, ReaderStep DEF BoundsInv

\* The types of the tasks, for commands and URLs of any number.
THEOREM TasksTyping == Spec => []TypeOK
  <1>1. BoundsInv => TypeOK
    BY DEF BoundsInv, QueueOK, ConfigOK, ReaderOK, TypeOK
  <1> QED
    BY <1>1, BoundsInitial, BoundsStep, PTL DEF Spec

\* A task that reads the URL stays in the array, whatever the parser does to
\* it meanwhile (handle_connect_to, usb_cmd_get_config).
THEOREM ReaderStaysInBounds == Spec => []ReadsInBounds
  <1>1. BoundsInv => ReadsInBounds
    BY DEF BoundsInv, ReaderOK
  <1> QED
    BY <1>1, BoundsInitial, BoundsStep, PTL DEF Spec

-----------------------------------------------------------------------------
(* The first URL.                                                          *)

\* A step keeps the order in which init creates what the task needs.
LEMMA TaskStep ==
  ASSUME TaskInv, [Next]_vars
  PROVE  TaskInv'
  <1> USE DEF TaskInv
  <1>1. CASE Lifecycle
    BY <1>1 DEF Lifecycle, InstallDriver, ClearContext, CreateTask, SetInitialized,
                Deinit, Stage, Accepts, Resets, Request, history
  <1>2. CASE ReadBytes
    BY <1>2 DEF ReadBytes, Accepts, Resets, lifecycle, history
  <1>3. CASE HandleCommand
    <2>1. CASE CopyChar
      BY <2>1 DEF CopyChar, Accepts, Request, lifecycle
    <2>2. CASE Terminate
      BY <2>2 DEF Terminate, Accepts, Request, lifecycle, history
    <2>3. CASE ZeroChar \/ ZeroFlag
      BY <2>3 DEF ZeroChar, ZeroFlag, Resets, Request, lifecycle
    <2>4. CASE SetConfigured \/ EndReset \/ HandleOther
      <3>1. at' = 0 /\ task /\ changes' = changes /\ UNCHANGED lifecycle
        BY <2>4 DEF SetConfigured, EndReset, HandleOther, Carried, Accepts, Resets
      <3> QED
        BY <3>1 DEF lifecycle
    <2> QED
      BY <1>3, <2>1, <2>2, <2>3, <2>4 DEF HandleCommand, HandleReset
  <1>4. CASE HostSends \/ BeginRead \/ ReadChar
    BY <1>4 DEF HostSends, BeginRead, ReadChar, Accepts, Resets, Request, lifecycle, history
  <1>5. CASE UNCHANGED vars
    BY <1>5 DEF vars, Accepts, Resets, Request, lifecycle, history
  <1> QED
    BY <1>1, <1>2, <1>3, <1>4, <1>5 DEF Next

\* A step that leaves commands and configuration alone.
LEMMA FirstKept ==
  ASSUME FirstInv, UNCHANGED <<at, server_url, configured, changes, first>>,
         at > 0 => UNCHANGED chunk
  PROVE  FirstInv'
  BY DEF FirstInv, Holds, HoldsFirst, Accepts, Resets, Request

\* A step keeps what the array holds while its first URL is being copied.
LEMMA FirstStep ==
  ASSUME BoundsInv, TaskInv, FirstInv, [Next]_vars
  PROVE  FirstInv'
  <1>0. at \in Nat /\ changes \in Nat /\ first \in Seq(Char)
    BY DEF BoundsInv, QueueOK
  <1>1. CASE ClearContext
    BY <1>0, <1>1 DEF ClearContext, Stage, TaskInv, FirstInv, history
  <1>2. CASE InstallDriver \/ CreateTask \/ SetInitialized \/ Deinit
    BY <1>2, FirstKept DEF InstallDriver, CreateTask, SetInitialized, Deinit, config, history
  <1>3. CASE ReadBytes
    <2>1. at = 0
      BY <1>0, <1>3 DEF ReadBytes, TaskInv, Accepts, Resets
    <2> QED
      BY <1>0, <1>3, <2>1, FirstKept DEF ReadBytes, config, history
  <1>4. CASE CopyChar
    <2>1. /\ Request.url \in Seq(Char) /\ Len(Request.url) \in 1..(UrlSize - 1)
          /\ at \in 0..(UrlSize - 2)
      BY <1>4, RequestTyped, CopyTyped DEF CopyChar, Accepts, BoundsInv
    <2>2. Request' = Request /\ Accepts' /\ configured' = configured /\ at' = at + 1
      BY <1>4 DEF CopyChar, Request, Accepts
    <2>3. server_url \in [Index -> Char \cup {0}]
      BY DEF BoundsInv, ConfigOK
    <2>4. CASE at = 0 /\ changes = 0
      <3>1. first' = Request.url /\ changes' = 1 /\ ~configured
        BY <1>0, <1>4, <2>4 DEF CopyChar, FirstInv
      <3>2. server_url'[0] = first'[1]
        <4>1. 0 \in Index
          BY TasksAssumption DEF Index, TasksAssumption
        <4> QED
          BY <1>4, <2>3, <2>4, <3>1, <4>1 DEF CopyChar
      <3> QED
        <4>1. at' = 1
          BY <2>2, <2>4
        <4>2. Holds(at)'
          BY <3>2, <4>1 DEF Holds, Index
        <4> QED
          BY <2>1, <2>2, <3>1, <4>1, <4>2 DEF FirstInv
    <2>5. CASE at = 0 /\ changes > 0
      BY <1>0, <1>4, <2>5 DEF CopyChar, FirstInv
    <2>6. CASE at > 0 /\ changes = 1
      <3>1. first' = first /\ Request.url = first /\ changes' = 1 /\ ~configured
        BY <1>0, <1>4, <2>6 DEF CopyChar, FirstInv
      <3>2. \A i \in Index : server_url'[i] = IF i = at THEN first[at + 1] ELSE server_url[i]
        BY <1>4, <2>3, <3>1 DEF CopyChar, Index
      <3>3. Holds(at)'
        <4>1. Holds(at)
          BY <1>0, <1>4, <2>6 DEF CopyChar, FirstInv
        <4> QED
          BY <1>0, <2>2, <3>1, <3>2, <4>1 DEF Holds, Index
      <3>4. at' <= Len(first')
        BY <1>0, <1>4, <2>1, <2>2, <3>1 DEF CopyChar
      <3> QED
        BY <1>0, <2>2, <3>1, <3>3, <3>4 DEF FirstInv
    <2>7. CASE at > 0 /\ changes # 1
      BY <1>0, <1>4, <2>7 DEF CopyChar, FirstInv
    <2> QED
      BY <1>0, <2>4, <2>5, <2>6, <2>7
  <1>5. CASE Terminate
    <2>1. Len(Request.url) \in 1..(UrlSize - 1) /\ at = Len(Request.url) /\ at \in Index
      BY <1>5, RequestTyped, CopyTyped DEF Terminate, Accepts, BoundsInv
    <2>2. Request' = Request /\ Accepts'
      BY <1>5 DEF Terminate, Request, Accepts
    <2>3. changes' = changes /\ first' = first /\ configured' = configured /\ at' = at + 1
      BY <1>5 DEF Terminate, history
    <2>4. CASE changes = 1
      <3>1. Request.url = first /\ ~configured /\ Holds(Len(first))
        BY <1>0, <1>5, <2>1, <2>4 DEF Terminate, FirstInv
      <3>2. \A i \in Index : server_url'[i] = IF i = at THEN 0 ELSE server_url[i]
        BY <1>5 DEF Terminate, BoundsInv, ConfigOK
      <3>3. Holds(at)' /\ HoldsFirst'
        BY <2>1, <2>3, <3>1, <3>2 DEF Holds, HoldsFirst, Index
      <3> QED
        BY <1>0, <2>1, <2>2, <2>3, <2>4, <3>1, <3>3 DEF FirstInv, Holds
    <2>5. CASE changes # 1
      BY <1>0, <2>1, <2>3, <2>5 DEF FirstInv
    <2> QED
      BY <2>4, <2>5
  <1>6. CASE SetConfigured
    <2>1. Len(Request.url) \in 1..(UrlSize - 1) /\ at > Len(Request.url)
      BY <1>6, RequestTyped DEF SetConfigured, Accepts, BoundsInv
    <2>2. at' = 0 /\ changes' = changes /\ first' = first /\ server_url' = server_url
      BY <1>6 DEF SetConfigured, Carried
    <2>3. changes = 1 => HoldsFirst
      BY <1>0, <1>6, <2>1 DEF SetConfigured, FirstInv
    <2>4. changes # 0
      BY <1>0, <2>1 DEF FirstInv
    <2> QED
      BY <1>0, <2>2, <2>3, <2>4 DEF FirstInv, HoldsFirst, Holds
  <1>7. CASE HandleReset
    <2>1. CASE ZeroChar \/ ZeroFlag
      <3>1. /\ at' = 1 /\ (configured' => configured) /\ first' = first
            /\ changes' = IF at = 0 THEN changes + 1 ELSE changes
        BY <2>1 DEF ZeroChar, ZeroFlag, BeginsToChange
      <3>2. ~Accepts'
        BY <2>1 DEF ZeroChar, ZeroFlag, Resets, Accepts, Request
      <3> QED
        BY <1>0, <3>1, <3>2 DEF FirstInv
    <2>2. CASE EndReset
      BY <1>0, <2>2 DEF EndReset, Carried, FirstInv, HoldsFirst, Holds, config
    <2> QED
      BY <1>7, <2>1, <2>2 DEF HandleReset
  <1>8. CASE HandleOther
    BY <1>0, <1>8 DEF HandleOther, Carried, FirstInv, HoldsFirst, Holds, config
  <1>9. CASE HostSends \/ BeginRead \/ ReadChar
    BY <1>9, FirstKept DEF HostSends, BeginRead, ReadChar, config, history
  <1>10. CASE UNCHANGED vars
    BY <1>10, FirstKept DEF vars, config, history
  <1> QED
    BY <1>1, <1>2, <1>3, <1>4, <1>5, <1>6, <1>7, <1>8, <1>9, <1>10
       DEF Next, Lifecycle, HandleCommand

\* A step that leaves the reader alone does not take the first URL from under
\* it: only a command that changes the configuration again does.
LEMMA ReaderKept ==
  ASSUME ReaderInv, UNCHANGED reader,
         /\ changes \in Nat /\ changes' \in Nat
         /\ changes' <= 1 =>
              \/ reader.state = "idle"
              \/ changes <= 1 /\ first' = first /\ (configured => configured')
  PROVE  ReaderInv'
  BY DEF ReaderInv

\* A step keeps the reader behind the first URL, or lets the configuration go on.
LEMMA ExactStep ==
  ASSUME BoundsInv, TaskInv, FirstInv, ReaderInv, [Next]_vars
  PROVE  ReaderInv'
  <1>0. /\ changes \in Nat /\ first \in Seq(Char)
        /\ reader \in [state : {"idle", "reading", "read"}, i : Nat, text : Seq(Char)]
    BY DEF BoundsInv, QueueOK, ReaderOK
  <1>1. CASE Lifecycle
    <2>1. CASE ClearContext
      <3>1. changes = 0 /\ ~configured
        BY <2>1 DEF ClearContext, Stage, TaskInv, FirstInv
      <3> QED
        BY <1>0, <2>1, <3>1, ReaderKept DEF ClearContext, ReaderInv, history
    <2>2. CASE InstallDriver \/ CreateTask \/ SetInitialized \/ Deinit
      BY <1>0, <2>2, ReaderKept DEF InstallDriver, CreateTask, SetInitialized, Deinit,
                                    config, history
    <2> QED
      BY <1>1, <2>1, <2>2 DEF Lifecycle
  <1>2. CASE ReadBytes \/ HostSends
    BY <1>0, <1>2, ReaderKept DEF ReadBytes, HostSends, config, history
  <1>3. CASE CopyChar
    <2>1. changes' \in Nat /\ reader' = reader /\ configured' = configured
      BY <1>0, <1>3 DEF CopyChar
    <2>2. changes = 0 => reader.state = "idle"
      BY <1>0 DEF FirstInv, ReaderInv
    <2>3. changes > 0 /\ changes' <= 1 => first' = first /\ changes <= 1
      BY <1>0, <1>3 DEF CopyChar
    <2> QED
      BY <1>0, <2>1, <2>2, <2>3, ReaderKept
  <1>4. CASE Terminate \/ SetConfigured \/ HandleOther
    BY <1>0, <1>4, ReaderKept DEF Terminate, SetConfigured, HandleOther, config, history
  <1>5. CASE HandleReset
    <2>1. CASE ZeroChar \/ ZeroFlag
      <3>1. /\ changes' = IF at = 0 THEN changes + 1 ELSE changes
            /\ reader' = reader
        BY <2>1 DEF ZeroChar, ZeroFlag, BeginsToChange
      <3>2. ~configured /\ changes <= 1 => reader.state = "idle"
        BY <1>0 DEF ReaderInv
      <3>3. changes = 0 => ~configured
        BY DEF FirstInv
      <3>4. changes = 1 /\ at # 0 => ~configured
        BY DEF FirstInv, BoundsInv, QueueOK
      <3>5. changes' \in Nat /\ (changes' <= 1 => reader.state = "idle")
        BY <1>0, <3>1, <3>2, <3>3, <3>4
      <3> QED
        BY <1>0, <3>1, <3>5, ReaderKept
    <2>2. CASE EndReset
      BY <1>0, <2>2, ReaderKept DEF EndReset, config
    <2> QED
      BY <1>5, <2>1, <2>2 DEF HandleReset
  <1>6. CASE BeginRead
    <2>1. /\ reader'.i = 0 /\ reader'.text = <<>> /\ reader'.state = "reading"
          /\ configured' /\ changes' = changes /\ first' = first
      BY <1>6, ReaderMoves DEF BeginRead, BoundsInv, config, history
    <2> QED
      BY <1>0, <2>1 DEF ReaderInv
  <1>7. CASE ReadChar
    <2>1. CASE changes > 1
      BY <1>0, <1>7, <2>1 DEF ReadChar, ReaderInv, history
    <2>2. CASE changes <= 1
      <3>1. /\ configured /\ reader.i = Len(reader.text) /\ reader.i \in 0..Len(first)
            /\ \A k \in 1..reader.i : reader.text[k] = first[k]
        BY <1>0, <1>7, <2>2 DEF ReadChar, ReaderInv
      <3>2. HoldsFirst
        BY <2>2, <3>1 DEF FirstInv
      <3>3. configured' /\ changes' = changes /\ first' = first
        BY <1>7, <3>1 DEF ReadChar, config, history
      <3>4. CASE server_url[reader.i] = 0
        <4>1. /\ reader'.state = "read" /\ reader'.i = reader.i /\ reader'.text = reader.text
          BY <1>7, <3>4, ReaderMoves DEF BoundsInv
        <4>2. reader.i = Len(first)
          <5>1. SUFFICES ASSUME reader.i < Len(first) PROVE FALSE
            BY <1>0, <3>1
          <5>2. server_url[reader.i] = first[reader.i + 1] /\ first[reader.i + 1] \in Char
            BY <1>0, <1>7, <3>1, <3>2, <5>1 DEF ReadChar, HoldsFirst, Holds
          <5> QED
            BY <3>4, <5>2, TasksAssumption DEF TasksAssumption
        <4> QED
          BY <3>1, <3>3, <4>1, <4>2 DEF ReaderInv
      <3>5. CASE server_url[reader.i] # 0
        <4>1. /\ reader'.state = "reading" /\ reader'.i = reader.i + 1
              /\ reader'.text = Append(reader.text, server_url[reader.i])
          BY <1>7, <3>5, ReaderMoves DEF BoundsInv
        <4>2. reader.i < Len(first) /\ server_url[reader.i] = first[reader.i + 1]
          BY <1>0, <1>7, <3>1, <3>2, <3>5 DEF ReadChar, HoldsFirst, Holds
        <4>3. /\ Len(reader'.text) = reader.i + 1
              /\ \A k \in 1..(reader.i + 1) : reader'.text[k] = first[k]
          BY <1>0, <3>1, <4>1, <4>2
        <4> QED
          BY <1>0, <3>1, <3>3, <4>1, <4>2, <4>3 DEF ReaderInv
      <3> QED
        BY <3>4, <3>5
    <2> QED
      BY <1>0, <2>1, <2>2
  <1>8. CASE UNCHANGED vars
    BY <1>0, <1>8, ReaderKept DEF vars, config, history
  <1> QED
    BY <1>1, <1>2, <1>3, <1>4, <1>5, <1>6, <1>7, <1>8 DEF Next, HandleCommand

\* At power on no URL was ever written.
LEMMA ExactInitial == Init => ExactInv
  <1> SUFFICES ASSUME Init PROVE ExactInv
    OBVIOUS
  <1>1. BoundsInv
    BY BoundsInitial
  <1>2. TaskInv /\ FirstInv
    BY DEF Init, TaskInv, FirstInv
  <1>3. reader.state = "idle"
    BY DEF Init, Idle
  <1> QED
    BY <1>1, <1>2, <1>3 DEF ExactInv, ReaderInv

\* What the strengthening is for: a text read to its NUL is the first URL.
LEMMA ReadIsFirst ==
  ASSUME ExactInv
  PROVE  FirstReadExact
  <1>1. /\ first \in Seq(Char)
        /\ reader \in [state : {"idle", "reading", "read"}, i : Nat, text : Seq(Char)]
    BY DEF ExactInv, BoundsInv, QueueOK, ReaderOK
  <1>2. SUFFICES ASSUME reader.state = "read", changes <= 1
                 PROVE  reader.text = first
    BY DEF FirstReadExact
  <1>3. /\ Len(reader.text) = Len(first)
        /\ \A k \in 1..Len(reader.text) : reader.text[k] = first[k]
    BY <1>2 DEF ExactInv, ReaderInv
  <1> QED
    BY <1>1, <1>3, SeqEqual

\* A task that has seen the flag set reads the whole of the first URL,
\* whenever its command arrived (usb_cmd_init, handle_connect_to).
THEOREM FirstUrlIsWhole == Spec => []FirstReadExact
  <1>1. ExactInv /\ [Next]_vars => ExactInv'
    BY BoundsStep, TaskStep, FirstStep, ExactStep DEF ExactInv
  <1> QED
    BY <1>1, ExactInitial, ReadIsFirst, PTL DEF Spec

=============================================================================
