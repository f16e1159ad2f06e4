------------------------------ MODULE UsbTasks ------------------------------
(***************************************************************************)
(* components/usb_cmd, the tasks: usb_cmd_init and usb_cmd_deinit step by  *)
(* step in one task, uart_event_task, and a task that reads the URL behind *)
(* the pointer of usb_cmd_get_config while the parser writes it.           *)
(*                                                                         *)
(* A command is taken as a whole from what was read; UsbCmd is about its   *)
(* bytes.  Here only the URL and its flag count, a character at a time.    *)
(* After deinit there is no second init: two tasks would share a parser.   *)
(***************************************************************************)
EXTENDS Naturals, Sequences

CONSTANTS
  UrlSize,     \* sizeof(s_ctx.config.server_url)
  Char,        \* the characters of a URL
  Requests,    \* the commands the host sends: URL, no URL, or RESET
  MaxChunk,    \* commands in one uart_read_bytes
  MaxRequests  \* bound: commands the host sends

ASSUME TasksAssumption ==
  /\ UrlSize \in Nat \ {0} /\ MaxChunk \in Nat \ {0} /\ MaxRequests \in Nat
  /\ 0 \notin Char
  /\ \A r \in Requests : r.cmd \in {"CONNECT_TO", "RESET", "STATUS"} /\ r.url \in Seq(Char)

VARIABLES
  stage,       \* how far usb_cmd_init or usb_cmd_deinit is
  driver,      \* the UART driver is installed
  task,        \* uart_event_task exists
  fifo,        \* commands in the driver's buffer
  chunk,       \* commands read by the task and not yet carried out
  at,          \* the next character handle_connect_to writes
  server_url, configured,  \* of s_ctx.config
  reader,      \* another task, reading the URL
  sent, done,  \* how many commands were sent, and were carried out
  changes,     \* how many of them began to change the configuration
  first        \* the first URL taken

lifecycle == <<stage, driver, task>>
config == <<server_url, configured>>
history == <<sent, done, changes, first>>
vars == <<lifecycle, fifo, chunk, at, config, reader, history>>

Index == 0..(UrlSize - 1)
NoUrl == [i \in Index |-> 0]
Idle == [state |-> "idle", i |-> 0, text |-> <<>>]

-----------------------------------------------------------------------------
(* usb_cmd_init and usb_cmd_deinit.                                        *)

Stage(from, to) == stage = from /\ stage' = to

InstallDriver ==
  /\ Stage("off", "installed") /\ driver' = TRUE
  /\ UNCHANGED <<task, fifo, chunk, at, config, reader, history>>

ClearContext ==
  /\ Stage("installed", "cleared")
  /\ server_url' = NoUrl /\ configured' = FALSE
  /\ UNCHANGED <<driver, task, fifo, chunk, at, reader, history>>

\* Mutant: the task is created first and the context cleared then.
CreateTaskFirst ==
  \/ /\ stage = "installed" /\ ~task /\ task' = TRUE
     /\ UNCHANGED <<stage, driver, fifo, chunk, at, config, reader, history>>
  \/ /\ task /\ Stage("cleared", "created")
     /\ UNCHANGED <<driver, task, fifo, chunk, at, config, reader, history>>

\* xTaskCreate, whose result is not looked at.
CreateTask ==
  /\ Stage("cleared", "created") /\ task' \in BOOLEAN
  /\ UNCHANGED <<driver, fifo, chunk, at, config, reader, history>>

SetInitialized ==
  /\ Stage("created", "up")
  /\ UNCHANGED <<driver, task, fifo, chunk, at, config, reader, history>>

\* The task goes on with what it has read.
Deinit ==
  /\ Stage("up", "down") /\ driver' = FALSE
  /\ fifo' = <<>>
  /\ UNCHANGED <<task, chunk, at, config, reader, history>>

-----------------------------------------------------------------------------
(* uart_event_task.                                                        *)

\* Mutant: only what had arrived before is read, the last command waits.
ReadBytesLate ==
  \E n \in 1..MaxChunk :
    /\ task /\ driver /\ chunk = <<>> /\ n < Len(fifo)
    /\ chunk' = SubSeq(fifo, 1, n) /\ fifo' = SubSeq(fifo, n + 1, Len(fifo))
    /\ UNCHANGED <<lifecycle, at, config, reader, history>>

\* uart_read_bytes; without a driver it fails, and the task tries again.
ReadBytes ==
  \E n \in 1..MaxChunk :
    /\ task /\ driver /\ chunk = <<>> /\ n <= Len(fifo)
    /\ chunk' = SubSeq(fifo, 1, n) /\ fifo' = SubSeq(fifo, n + 1, Len(fifo))
    /\ UNCHANGED <<lifecycle, at, config, reader, history>>

Request == Head(chunk)
Carried == chunk' = Tail(chunk) /\ done' = done + 1 /\ at' = 0

\* Mutant: no room is kept for the terminating zero.
AcceptsFull == chunk # <<>> /\ Request.cmd = "CONNECT_TO" /\ Len(Request.url) \in 1..UrlSize

Accepts == chunk # <<>> /\ Request.cmd = "CONNECT_TO" /\ Len(Request.url) \in 1..(UrlSize - 1)

Resets == chunk # <<>> /\ Request.cmd = "RESET"

\* handle_connect_to: memcpy, a character a step; the zero; the flag.
CopyChar ==
  /\ Accepts /\ at < Len(Request.url)
  /\ server_url' = [server_url EXCEPT ![at] = Request.url[at + 1]]
  /\ at' = at + 1
  /\ IF at = 0 THEN changes' = changes + 1 /\ first' = (IF changes = 0 THEN Request.url ELSE first)
               ELSE UNCHANGED <<changes, first>>
  /\ UNCHANGED <<lifecycle, fifo, chunk, configured, reader, sent, done>>

Terminate ==
  /\ Accepts /\ at = Len(Request.url)
  /\ server_url' = [server_url EXCEPT ![at] = 0]
  /\ at' = at + 1
  /\ UNCHANGED <<lifecycle, fifo, chunk, configured, reader, history>>

SetConfigured ==
  /\ Accepts /\ at > Len(Request.url)
  /\ configured' = TRUE
  /\ Carried
  /\ UNCHANGED <<lifecycle, fifo, server_url, reader, sent, changes, first>>

\* handle_reset: memset passes over the array and the flag in an order of its
\* own, a cell a step; its last step hands the command over.
BeginsToChange ==
  changes' = (IF at = 0 THEN changes + 1 ELSE changes) /\ UNCHANGED first

ZeroChar ==
  /\ Resets
  /\ \E i \in Index : server_url[i] # 0 /\ server_url' = [server_url EXCEPT ![i] = 0]
  /\ at' = 1 /\ BeginsToChange
  /\ UNCHANGED <<lifecycle, fifo, chunk, configured, reader, sent, done>>

ZeroFlag ==
  /\ Resets /\ configured /\ configured' = FALSE
  /\ at' = 1 /\ BeginsToChange
  /\ UNCHANGED <<lifecycle, fifo, chunk, server_url, reader, sent, done>>

EndReset ==
  /\ Resets /\ server_url = NoUrl /\ ~configured
  /\ Carried
  /\ UNCHANGED <<lifecycle, fifo, config, reader, sent, changes, first>>

HandleReset == ZeroChar \/ ZeroFlag \/ EndReset

\* A URL that is empty or too long, or a command that leaves the URL alone.
HandleOther ==
  /\ chunk # <<>> /\ ~Accepts /\ ~Resets
  /\ Carried
  /\ UNCHANGED <<lifecycle, fifo, config, reader, sent, changes, first>>

HandleCommand == CopyChar \/ Terminate \/ SetConfigured \/ HandleReset \/ HandleOther

-----------------------------------------------------------------------------
(* The host, and a task that uses the configuration.                       *)

HostSends ==
  \E r \in Requests :
    /\ driver /\ sent < MaxRequests
    /\ fifo' = Append(fifo, r) /\ sent' = sent + 1
    /\ UNCHANGED <<lifecycle, chunk, at, config, reader, done, changes, first>>

\* usb_cmd_get_config, and the flag is set.
BeginRead ==
  /\ reader.state # "reading" /\ configured
  /\ reader' = [Idle EXCEPT !.state = "reading"]
  /\ UNCHANGED <<lifecycle, fifo, chunk, at, config, history>>

ReadChar ==
  /\ reader.state = "reading" /\ reader.i \in Index
  /\ LET c == server_url[reader.i]
     IN  reader' = IF c = 0 THEN [reader EXCEPT !.state = "read"]
                   ELSE [reader EXCEPT !.i = @ + 1, !.text = Append(@, c)]
  /\ UNCHANGED <<lifecycle, fifo, chunk, at, config, history>>

-----------------------------------------------------------------------------
Init ==
  /\ stage = "off" /\ driver = FALSE /\ task = FALSE
  /\ fifo = <<>> /\ chunk = <<>> /\ at = 0
  /\ server_url = NoUrl /\ configured = FALSE
  /\ reader = Idle
  /\ sent = 0 /\ done = 0 /\ changes = 0 /\ first = <<>>

Lifecycle == InstallDriver \/ ClearContext \/ CreateTask \/ SetInitialized \/ Deinit

Next == Lifecycle \/ ReadBytes \/ HandleCommand \/ HostSends \/ BeginRead \/ ReadChar

\* The scheduler runs uart_event_task; nothing in it blocks but the read.
Spec == Init /\ [][Next]_vars /\ WF_vars(ReadBytes) /\ WF_vars(HandleCommand)

-----------------------------------------------------------------------------
(* Properties.                                                             *)

\* Type correctness.
TypeOK ==
  /\ stage \in {"off", "installed", "cleared", "created", "up", "down"}
  /\ driver \in BOOLEAN /\ task \in BOOLEAN
  /\ fifo \in Seq(Requests) /\ chunk \in Seq(Requests)
  /\ at \in Nat
  /\ server_url \in [Index -> Char \cup {0}] /\ configured \in BOOLEAN
  /\ reader \in [state : {"idle", "reading", "read"}, i : Nat, text : Seq(Char)]
  /\ sent \in Nat /\ done \in Nat /\ changes \in Nat /\ first \in Seq(Char)

\* Whatever commands come while a task reads the URL, also in the middle of a
\* memcpy, it finds a zero before the end of the array.
ReadsInBounds == reader.i \in Index

\* A task that saw the flag reads the whole URL, as long as no second command
\* changes it: the flag comes after the last character, and init does not
\* clear what a command received during init has set.
FirstReadExact == reader.state = "read" /\ changes <= 1 => reader.text = first

\* A command received is carried out, unless the driver is deleted or there
\* was no memory for the task.
EachCarriedOut ==
  \A n \in 1..MaxRequests : task /\ sent >= n ~> done >= n \/ ~driver

=============================================================================
