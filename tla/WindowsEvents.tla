---------------------------- MODULE WindowsEvents ----------------------------
(***************************************************************************)
(* The records of the eBPF-for-Windows programs and what the loader's      *)
(* parser makes of them.  The programs exist twice: those of etw/programs/ *)
(* pack their structs, those of bpf-windows/ leave them aligned.  Either   *)
(* Makefile installs its objects where the loader looks; one parser, with  *)
(* literal offsets, reads both.                                            *)
(***************************************************************************)
EXTENDS StructLayout

Builds == {"packed", "natural"}
Programs == {"process", "file", "network"}

\* Contents are opaque values; Zero is a field of zero bytes, an empty string.
Zero == "zero"

\* Where a program runs: whose thread, and what the operation is about (the
\* name of the program, the path or the peer).  op and family are the context
\* of the network program.
Operation(prog, who, subject, op, family) ==
  [prog |-> prog, pid |-> who[1], tid |-> who[2], subject |-> subject,
   op |-> op, family |-> family]
-----------------------------------------------------------------------------
(* Layout. *)

event_header ==
  <<U32("event_type"), U32("pid"), U32("tid"), U64("timestamp")>>
process_event ==
  event_header \o <<U32("parent_pid"), U32("exit_code"),
                    Bytes("image_name", 256), Bytes("cmd_line", 512)>>
file_event ==
  event_header \o <<U32("operation"), U32("flags"), Bytes("file_path", 512)>>
network_event ==
  event_header \o <<U32("protocol"), U32("operation"), Bytes("local_addr", 16),
                    Bytes("remote_addr", 16), U16("local_port"),
                    U16("remote_port"), U16("addr_family"), U16("pad")>>

\* bpf-windows/ declares the same fields and does not pack them; neither does Go.
bind_process_event == process_event
bind_file_event == file_event
bind_network_event == network_event
EBPFProcessEvent == process_event
EBPFFileEvent == file_event
EBPFNetworkEvent == network_event

CStruct ==
  [packed |-> [process |-> process_event, file |-> file_event,
               network |-> network_event],
   natural |-> [process |-> bind_process_event, file |-> bind_file_event,
                network |-> bind_network_event]]
GoStruct == [process |-> EBPFProcessEvent, file |-> EBPFFileEvent,
             network |-> EBPFNetworkEvent]

Starts(build, prog) ==
  IF build = "packed" THEN Packed(CStruct[build][prog])
  ELSE Aligned(CStruct[build][prog])

RecordSize(build, prog) ==
  SizeOf(CStruct[build][prog], Starts(build, prog),
         IF build = "packed" THEN 1 ELSE 8)

\* The fields' places, by build and program.
PlacesOf(build) ==
  LET places(prog) == Places(CStruct[build][prog], Starts(build, prog))
  IN  [process |-> places("process"), file |-> places("file"),
       network |-> places("network")]
Layout == [packed |-> PlacesOf("packed"), natural |-> PlacesOf("natural")]

\* unsafe.Sizeof
GoSize(prog) == SizeOf(GoStruct[prog], Aligned(GoStruct[prog]), 8)

\* The parser looks for details in a record no shorter than the Go struct.
Whole(build) == {prog \in Programs : RecordSize(build, prog) >= GoSize(prog)}
Detailed == [packed |-> Whole("packed"), natural |-> Whole("natural")]
-----------------------------------------------------------------------------
(* What the programs write. *)

fill_header(o) ==
  [event_type |-> o.prog, pid |-> o.pid, tid |-> o.tid, timestamp |-> "time"]

process_fields(o) ==
  [parent_pid |-> Zero, exit_code |-> Zero, image_name |-> o.subject,
   cmd_line |-> Zero]

\* The hook's context gives neither path nor operation.
file_fields == [operation |-> "open", flags |-> Zero, file_path |-> Zero]

NetOp(op) == IF op \in {1, 2} THEN "accept" ELSE "connect"

network_fields(o) ==
  [protocol |-> "tcp", operation |-> NetOp(o.op), local_addr |-> "local",
   remote_addr |-> IF o.family = "inet" THEN o.subject ELSE Zero,
   local_port |-> "port", remote_port |-> "port", addr_family |-> o.family]

\* bpf-windows/network_monitor.bpf.c knows nothing of the connection.
network_defaults ==
  [protocol |-> "tcp", operation |-> "connect", local_addr |-> Zero,
   remote_addr |-> Zero, local_port |-> Zero, remote_port |-> Zero,
   addr_family |-> "inet"]

Fields(build, o) ==
  IF o.prog = "process" THEN process_fields(o)
  ELSE IF o.prog = "file" THEN file_fields
  ELSE IF build = "packed" THEN network_fields(o) ELSE network_defaults

Written(build, o, name) ==
  IF name \in DOMAIN fill_header(o) THEN fill_header(o)[name]
  ELSE Fields(build, o)[name]
-----------------------------------------------------------------------------
(* What the parser reads. *)

\* The bytes of record o from first on: a field, where one starts there, or
\* else what the field there has; a string of zero bytes is empty.
Read(build, o, first) ==
  LET here == {p \in Layout[build][o.prog] : first \in p[2] .. (p[2] + p[3] - 1)}
  IN  IF \A p \in here : Written(build, o, p[1]) = Zero THEN Zero
      ELSE IF \E p \in here : p[2] = first
           THEN Written(build, o, (CHOOSE p \in here : p[2] = first)[1])
           ELSE "garbled"

\* The offsets the parser slices at.
HeaderAt == [event_type |-> 0, pid |-> 4, tid |-> 8, timestamp |-> 12]
ProcessAt == [parent_pid |-> 20, image_name |-> 28, cmd_line |-> 284]
FileAt == [operation |-> 20, flags |-> 24, file_path |-> 28]
NetworkAt == [protocol |-> 20, operation |-> 24, local_addr |-> 28,
              remote_addr |-> 44, local_port |-> 60, remote_port |-> 62,
              addr_family |-> 64]

parseNetworkEvent(build, o) ==
  IF Read(build, o, NetworkAt.addr_family) = "inet"
  THEN Read(build, o, NetworkAt.remote_addr) ELSE Zero

Details(build, o) ==
  IF o.prog \notin Detailed[build] THEN Zero
  ELSE IF o.prog = "process" THEN Read(build, o, ProcessAt.image_name)
  ELSE IF o.prog = "file" THEN Read(build, o, FileAt.file_path)
  ELSE parseNetworkEvent(build, o)

\* Mutant of parseEBPFEvent: the thread is taken for the process.
parseEBPFEventThread(build, o) ==
  [type |-> Read(build, o, HeaderAt.event_type), pid |-> Read(build, o, HeaderAt.tid),
   subject |-> Details(build, o)]

parseEBPFEvent(build, o) ==
  [type |-> Read(build, o, HeaderAt.event_type),
   pid |-> Read(build, o, HeaderAt.pid), subject |-> Details(build, o)]
=============================================================================
