---------------------------- MODULE KernelPolicyMC ----------------------------
(***************************************************************************)
(* Small instances of KernelPolicy: two tasks in two cgroups, and a few    *)
(* sets of calls.  "long" is a path whose first 16 bytes are "short", a    *)
(* path of 16 bytes; "path" is a file whose base name is "base".  The      *)
(* policy logs what it does not deny, and denies "long" for audit only.    *)
(***************************************************************************)
EXTENDS KernelPolicy, TLC

CONSTANTS p1, p2

MCCgroup == (p1 :> 1) @@ (p2 :> 2)

V4 == <<10, 0, 0, 1>>
Mapped == Zeros(10) \o <<255, 255>> \o V4
Execs == {Named("exec", "short"), Named("exec", "long")}
Names == {Named("file", "path"), Named("ptrace", "base"),
          Named("mount", "base")}
Connects == {Endpoint("connect", V4, 443)}
Mappeds == {Endpoint("connect", Mapped, 443)}
Sockets == {Endpoint("bind", V4, 443), Endpoint("bind", << >>, 0),
            Endpoint("listen", << >>, 443), Endpoint("listen", << >>, 0)}
Others == {Endpoint("connect", << >>, 0)}
Singles == {{a} : a \in {Named("exec", "short"), Named("file", "path"),
                         Named("mount", "base"), Endpoint("bind", V4, 443)}}
MCWorkloads == {Execs, Names, Connects, Sockets, Others,
                Mappeds} \cup Singles
MCCalls == {{Named("exec", "short"), Endpoint("connect", V4, 443)}}

MCHookName ==
  [x \in Types \X {"short", "long", "path", "base"} |->
     IF x = <<"file", "path">> THEN "base" ELSE x[2]]
MCFirst16 == [s \in {"short", "long", "path", "base"} |->
                IF s = "long" THEN "short" ELSE s]

\* A hash without collisions: equal texts have equal hashes, whoever computes.
MCFnv ==
  [x \in {"text", "chars"} \X {"", "short", "long", "path", "base"} |->
     CASE x[2] = "short" -> 1 [] x[2] = "long" -> 2 [] x[2] = "path" -> 3
       [] OTHER -> 4]
  @@ [x \in {"ip"} \X {V4, <<1, 0, 0, 10>>, <<0>>} |->
        CASE x[2] = V4 -> 5 [] x[2] = <<0>> -> 6 [] OTHER -> 7]
  @@ [x \in {"bytes"} \X {V4 \o <<1, 187>>, Mapped \o <<1, 187>>, <<187, 1>>}
        |-> 8]

\* Only executables are denied; everything else is logged, so that the
\* denials of the other calls are those of a failed evaluation.
AllSubjects ==
  {TraceSubject(r) : r \in UNION {TraceRecords(a) : a \in Attempts}}
    \cup {LSMSubject(HookRecord(a)) : a \in Attempts}
MCVerdict == [x \in Kinds \X AllSubjects |->
                IF x[2].name = "long" THEN "auditDeny" ELSE "log"]

\* When the hooks act on the tasks of both cgroups, each makes one call only.
MCInit == Init /\ (lsmFilter = {} => calls \in Singles \cup {Connects, Mappeds})
MCSpec == MCInit /\ [][Next]_vars

MCDeny == [x \in Kinds \X AllSubjects |-> "deny"]
=============================================================================
