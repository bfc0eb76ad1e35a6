---------------------------- MODULE KernelEvents ----------------------------
(***************************************************************************)
(* What the programs of bpf/ read of a system call, the structs they       *)
(* report it in, the hashes they look up, and what the decoders of         *)
(* internal/ebpf make of a report.  Names are opaque; addresses are        *)
(* sequences of octets and ports are numbers, since both are converted.    *)
(***************************************************************************)
EXTENDS StructLayout

CONSTANTS HookName, \* of each <<type, name>>, what the hook reads: the base name of
                    \* a file, 63 bytes of an executable's path
          First16,  \* the first 16 bytes of each name
          Fnv       \* FNV-1a: of <<"text", name>>, <<"ip", octets>> (the text
                    \* of an address), <<"chars", name>> (a name whose bytes
                    \* are sign-extended first) and <<"bytes", octets>>

\* A system call: [type, name, addr, port].  The address of a connect or bind
\* has 4 octets (AF_INET), 16 (AF_INET6) or none (any other family, or a
\* pointer that cannot be read); the port is in host order.
Types == {"exec", "file", "connect", "bind", "listen", "ptrace", "mount"}
Traced == {"exec", "file", "connect"}
Named(type, name) == [type |-> type, name |-> name, addr |-> << >>, port |-> 0]
Endpoint(type, addr, port) ==
  [type |-> type, name |-> "", addr |-> addr, port |-> port]

Family(addr) == CASE Len(addr) = 4 -> 2 [] Len(addr) = 16 -> 10 [] OTHER -> 0

\* ntohs, and what a 16-bit load makes of a port in network order.
Swap16(p) == (p % 256) * 256 + p \div 256
-----------------------------------------------------------------------------
(* The structs. *)

Head5 == <<U32("pid"), U32("uid"), U32("gid"), Bytes("comm", 16)>>
Stamps == <<U64("timestamp"), U64("cgroup_id")>>
Pad4 == <<Bytes("pad", 4)>>

execve_event == Head5 \o <<Bytes("filename", 256)>> \o Stamps
file_event ==
  Head5 \o <<Bytes("filename", 256), U32("flags"), U32("mode")>> \o Stamps
network_event ==
  Head5 \o <<U16("family"), U16("port"), U32("v4"), Bytes("v6", 16)>> \o Stamps
warmor_event ==
  Head5 \o <<Bytes("filename", 256)>> \o Stamps
        \o <<U8("event_type"), U8("decision"), U16("port"), U32("v4"),
             Bytes("v6", 16)>>
policy_key ==
  <<U64("cgroup_id"), U32("rule_hash"), U8("event_type"), Bytes("pad", 3)>>
policy_value ==
  <<U8("action"), U8("audit"), U16("pad"), U32("hit_count")>>

\* The Go structs, with their explicit padding.
\* Mutant of GoExecve: as a reader of the C struct would write it.
GoExecveBare == execve_event
GoExecve == Head5 \o <<Bytes("filename", 256)>> \o Pad4 \o Stamps
GoOpenat ==
  Head5 \o <<Bytes("filename", 256), U32("flags"), U32("mode")>>
        \o Pad4 \o Stamps
GoConnect ==
  Head5 \o <<U16("family"), U16("port"), U32("v4"), Bytes("v6", 16)>>
        \o Pad4 \o Stamps
GoLSM ==
  Head5 \o <<Bytes("filename", 256)>> \o Pad4 \o Stamps
        \o <<U8("event_type"), U8("decision"), U16("port"), U32("v4"),
             Bytes("v6", 16)>>
PolicyKey ==
  <<U64("cgroup_id"), U32("rule_hash"), U8("event_type"), Bytes("pad", 3)>>
PolicyValue ==
  <<U8("action"), U8("audit"), U16("pad"), U32("hit_count")>>

\* The struct a report of this type is written as, and the one it is read as.
CStruct(type, lsm) ==
  CASE lsm -> warmor_event
    [] ~lsm /\ type = "exec" -> execve_event
    [] ~lsm /\ type = "file" -> file_event
    [] ~lsm /\ type = "connect" -> network_event
GoStruct(type, lsm) ==
  CASE lsm -> GoLSM
    [] ~lsm /\ type = "exec" -> GoExecve
    [] ~lsm /\ type = "file" -> GoOpenat
    [] ~lsm /\ type = "connect" -> GoConnect

\* Every field is read from the bytes it was written to, and the record is as
\* long as binary.Read asks (its size is a multiple of 8: it holds a __u64).
ReadAsWritten(c, g) ==
  /\ Places(c, Aligned(c)) = Places(g, Packed(g))
  /\ SizeOf(g, Packed(g), 1) <= SizeOf(c, Aligned(c), 8)
TraceReadAsWritten ==
  \A type \in Traced : ReadAsWritten(CStruct(type, FALSE), GoStruct(type, FALSE))
HookReadAsWritten ==
  \A type \in Types : ReadAsWritten(CStruct(type, TRUE), GoStruct(type, TRUE))
RuleReadAsWritten ==
  ReadAsWritten(policy_key, PolicyKey) /\ ReadAsWritten(policy_value, PolicyValue)
-----------------------------------------------------------------------------
(* What the programs write: a record of the fields a call fills. *)

Record(type, name, family, addr, port) ==
  [type |-> type, name |-> name, family |-> family, addr |-> addr,
   port |-> port]

\* The tracepoints.  A connect of another family leaves port and address as
\* the ring's memory was; only the port (stale) is looked at later.
TraceExecve(a) == Record("exec", a.name, 0, << >>, 0)
TraceOpenat(a) == Record("file", a.name, 0, << >>, 0)
TraceConnect(a, stale) ==
  IF Family(a.addr) \in {2, 10}
  THEN Record("connect", "", Family(a.addr), a.addr, Swap16(a.port))
  ELSE Record("connect", "", 0, << >>, stale)

\* The hooks, which have no field for the family.  A port is copied as it lies
\* in the sockaddr; a listening socket's is in host order.
HookRecord(a) ==
  CASE a.type \in {"exec", "file", "ptrace", "mount"} ->
         Record(a.type, HookName[<<a.type, a.name>>], 0, << >>, 0)
    [] a.type \in {"connect", "bind"} ->
         Record(a.type, "", 0, a.addr, Swap16(a.port))
    [] a.type = "listen" -> Record(a.type, "", 0, << >>, a.port)
-----------------------------------------------------------------------------
(* The hashes the hooks look up. *)

\* 16 bytes of the name it has read; the bytes are plain (signed) chars.
fnv1a_hash(name) == Fnv[<<"chars", First16[name]>>]

\* The octets of the address, then the port as it lies in the sockaddr.
hash_endpoint(addr, port) ==
  Fnv[<<"bytes", addr \o <<port \div 256, port % 256>> >>]

\* The port in host order, low byte first.
hash_port(port) == Fnv[<<"bytes", <<port % 256, port \div 256>> >>]

HookHash(a) ==
  CASE a.type \in {"exec", "file", "ptrace", "mount"} ->
         fnv1a_hash(HookName[<<a.type, a.name>>])
    [] a.type \in {"connect", "bind"} -> hash_endpoint(a.addr, a.port)
    [] a.type = "listen" -> hash_port(a.port)
-----------------------------------------------------------------------------
(* What user space makes of a report: kind and subject. *)

Kinds == {"process", "file", "network"}
Kind(type) ==
  CASE type \in {"exec", "ptrace"} -> "process"
    [] type \in {"file", "mount"} -> "file"
    [] type \in {"connect", "bind", "listen"} -> "network"

Subject(name, addr, port) == [name |-> name, addr |-> addr, port |-> port]

\* net.IP.String: an IPv4-mapped IPv6 address is written as IPv4.
Zeros(n) == [i \in 1..n |-> 0]
IPText(addr) ==
  IF Len(addr) = 16 /\ SubSeq(addr, 1, 12) = Zeros(10) \o <<255, 255>>
  THEN SubSeq(addr, 13, 16) ELSE addr

\* remoteAddrString: the IPv4 address is loaded little-endian and written
\* big-endian, which reverses its octets; another family is named by number.
remoteAddrString(r) ==
  CASE r.family = 2 -> <<r.addr[4], r.addr[3], r.addr[2], r.addr[1]>>
    [] r.family = 10 -> IPText(r.addr)
    [] OTHER -> <<r.family>>

\* ExecveEvent.ToEvent, OpenatEvent.ToEvent and ConnectEvent.ToEvent
TraceSubject(r) ==
  IF r.type = "connect" THEN Subject("", remoteAddrString(r), Swap16(r.port))
  ELSE Subject(r.name, << >>, 0)

\* LSMEvent.ToEvent: the port is not converted; an IPv4 address of zero is
\* taken for an IPv6 address, which is then all zeros too.
LSMSubject(r) ==
  CASE r.type \in {"connect", "bind"} ->
         Subject("", IF r.addr = Zeros(4) THEN Zeros(16) ELSE IPText(r.addr),
                 r.port)
    [] r.type = "listen" -> Subject("", << >>, r.port)
    [] OTHER -> Subject(r.name, << >>, 0)
-----------------------------------------------------------------------------
(* Rules as user space compiles them (syncToPolicyMap, SetRule). *)

\* HashPattern, of the whole name or of the text of the address, without port.
HashPattern(kind, s) ==
  IF kind = "network" THEN Fnv[<<"ip", s.addr>>] ELSE Fnv[<<"text", s.name>>]
NoPattern(kind, s) ==
  IF kind = "network" THEN s.addr = << >> ELSE s.name = ""

\* Event types 0, 1 and 2 of the code.
RuleType(kind) ==
  CASE kind = "process" -> "exec" [] kind = "file" -> "file"
    [] kind = "network" -> "connect"
UserKey(cg, kind, s) == <<cg, HashPattern(kind, s), RuleType(kind)>>
=============================================================================
