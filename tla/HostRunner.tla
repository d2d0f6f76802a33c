----------------------------- MODULE HostRunner -----------------------------
(***************************************************************************)
(* The node's side of a placement: what `flashnode work` registers for the *)
(* runner it was started with (agent/cli.py, inventory/capabilities.py),   *)
(* what the runner refuses and what it gives the task, and how an archive  *)
(* is unpacked into its directory (executor/*.py).  No state.              *)
(*                                                                         *)
(* A host is a record: runner, healthy (the doctor finds nothing fatal),   *)
(* claims_sandbox (its operator or its cluster says so), datasets, gpus,   *)
(* the images its owner adds, and the pools the control plane stamps.      *)
(***************************************************************************)
EXTENDS Expansion, Sequences

Runner == {"subprocess", "docker", "argv", "trusted"}

Host ==
    [node_id : STRING, runner : Runner, healthy : BOOLEAN, claims_sandbox : BOOLEAN,
     images : SUBSET STRING, datasets : {Confused} \cup SUBSET STRING, gpus : Nat,
     pools : SUBSET STRING]

Contained(host) == host.runner \in {"docker", "argv"}

\* The containerised tiers do not start on a machine the doctor finds broken, and none
\* does on one whose owner lends data in a malformed list: discover raises.
Starts(host) ==
    /\ Contained(host) => host.healthy
    /\ host.datasets # Confused

\* A registration in which every host can run modules.
RegistrationWithModules(host) ==
    [node_id |-> host.node_id,
     sandbox_capable |-> host.claims_sandbox \/ host.runner = "argv",
     argv_capable |-> host.runner = "argv",
     module_capable |-> TRUE,
     unsandboxed_argv_capable |-> host.runner = "trusted",
     local_datasets |-> host.datasets,
     gpus |-> host.gpus,
     pools |-> host.pools]

Registration(host) ==
    [node_id |-> host.node_id,
     sandbox_capable |-> host.claims_sandbox \/ host.runner = "argv",
     argv_capable |-> host.runner = "argv",
     module_capable |-> host.runner # "argv",
     unsandboxed_argv_capable |-> host.runner = "trusted",
     local_datasets |-> host.datasets,
     gpus |-> host.gpus,
     pools |-> host.pools]

(***************************************************************************)
(* Images: a reference parses when it has a name of the accepted shape and *)
(* an explicit tag or digest                                               *)
(***************************************************************************)
ImageAllowed(image, host) ==
    /\ image.version \in {"tag", "digest"}
    /\ image.wellformed
    /\ image.reference \in host.images \/ image.namespace

(***************************************************************************)
(* The runners.  content is what a payload asks to be run: an allowlisted  *)
(* module or an argv, its image and environment.                           *)
(***************************************************************************)
MountsRefused(host, payload) ==
    /\ payload.local_inputs # Absent
    /\ payload.local_inputs = Confused \/ ~(payload.local_inputs \subseteq host.datasets)

RunnerRefuses(host, payload, content) ==
    CASE host.runner = "subprocess" -> payload.kind = "argv" \/ ~content.allowlisted
      [] host.runner = "docker" ->
            \/ payload.kind = "argv" \/ ~content.allowlisted
            \/ ~ImageAllowed(content.image, host)
            \/ MountsRefused(host, payload)
      [] host.runner = "argv" ->
            \/ payload.kind # "argv"
            \/ ~ImageAllowed(content.image, host)
            \/ ~content.env_ok
            \/ MountsRefused(host, payload)
      [] host.runner = "trusted" -> payload.kind # "argv"

\* gpu_flags: anything but a positive count hands no device over.
GpuFlag(payload) ==
    IF payload.gpus \in {Absent, Confused} THEN 0 ELSE IF payload.gpus > 0 THEN payload.gpus ELSE 0

Mounted(host, payload) ==
    IF payload.local_inputs = Absent THEN {} ELSE payload.local_inputs

\* What the task has when its runner starts it.  A container has what the flags give;
\* a process of the host has the host's devices and no mount.
Gets(host, payload) ==
    [contained |-> Contained(host),
     datasets |-> IF Contained(host) THEN Mounted(host, payload) ELSE {},
     gpus |-> IF Contained(host) THEN GpuFlag(payload) ELSE host.gpus]

(***************************************************************************)
(* extract_archive_safely: members one at a time under a budget of bytes   *)
(* and a cap on their number.  Links are checked and not made; the target  *)
(* of one that is too long to be read counts as outside.  A zip is counted *)
(* before it is opened, a tar on the way, which ends alike.                *)
(*                                                                         *)
(* The members are those the library lists: for tarfile a tar that is cut, *)
(* or damaged, at a later header ends there without an error.              *)
(***************************************************************************)

\* What an archive may hold: a file, a directory, a link or a device.  A stream that is
\* not intact breaks off, with an error, after size bytes.
Member ==
    [kind : STRING, name : STRING, inside : BOOLEAN, target_inside : BOOLEAN,
     intact : BOOLEAN, size : Nat]

\* A file where an earlier member is a directory, or the other way round, cannot be made.
MemberRefused(members, k) ==
    LET member == members[k]
    IN  \/ ~member.inside
        \/ member.kind \in {"hardlink", "device"}
        \/ member.kind = "symlink" /\ ~member.target_inside
        \/ \E j \in 1 .. k - 1 :
              /\ members[j].name = member.name
              /\ {members[j].kind, member.kind} = {"file", "dir"}

Untouched == [refused |-> FALSE, written |-> {}, bytes |-> 0]

\* A member is refused before it is opened, or given up where its stream breaks off or the
\* budget is spent; what was written of it stays until the cleanup.
ExtractStep(sofar, members, k, cap, max_members) ==
    LET member == members[k]
        bytes == IF member.kind = "file" THEN sofar.bytes + member.size ELSE sofar.bytes
        others == {j \in sofar.written : members[j].name # member.name}
    IN  IF sofar.refused THEN sofar
        ELSE IF k > max_members \/ MemberRefused(members, k)
        THEN [sofar EXCEPT !.refused = TRUE]
        ELSE [refused |-> ~member.intact \/ bytes > cap, bytes |-> bytes,
              written |-> IF member.kind = "file" THEN others \cup {k} ELSE sofar.written]

\* What the loop over the members has written when it ends or raises.
Extraction(members, cap, max_members) ==
    LET upto[k \in 0 .. Len(members)] ==
            IF k = 0 THEN Untouched
            ELSE ExtractStep(upto[k - 1], members, k, cap, max_members)
    IN  upto[Len(members)]

\* The directory is removed when the loop raised; rmtree is taken to remove all of it.
Refusal == [refused |-> TRUE, written |-> {}, bytes |-> 0]

\* The extraction without that cleanup.
ExtractKept(members, cap, max_members) == Extraction(members, cap, max_members)

Extract(members, cap, max_members) ==
    IF Extraction(members, cap, max_members).refused THEN Refusal
    ELSE Extraction(members, cap, max_members)

\* parse_local_data: all the owner's entries, or none when one of them is malformed.
LentDatasets(entries) ==
    IF \E k \in DOMAIN entries :
          \/ entries[k].malformed
          \/ \E j \in DOMAIN entries : j # k /\ entries[j].label = entries[k].label
    THEN Confused
    ELSE {entries[k].label : k \in DOMAIN entries}

\* probe_gpus: one device per row with an index; the shorter query when the first gave none.
Devices(rows) == Cardinality({k \in DOMAIN rows : rows[k].index >= 0})

Probed(full, short) == IF Devices(full) > 0 THEN Devices(full) ELSE Devices(short)
=============================================================================
