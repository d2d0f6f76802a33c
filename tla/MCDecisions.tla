---------------------------- MODULE MCDecisions ----------------------------
(* One pool, one dataset, up to two devices; payloads and views with every  *)
(* kind of confusion; requests on both sides of each limit of the planner.  *)
EXTENDS Decisions

ASSUME HonestClaims /\ AllowlistsAgree

SpecOf(type, pool, tier, waived, gpus, local) ==
    [type |-> type, count |-> 2, pool |-> pool, tier |-> tier, waived |-> waived, gpus |-> gpus,
     local_inputs |-> local, lease |-> 60, defects |-> {}]

Plain == SpecOf("command", "any", "sandboxed", FALSE, 0, Absent)

MCJobs ==
    {SpecOf(t, p, i, w, g, l) : t \in LegacyType \cup {"command"}, p \in {"any", "", "team"},
        i \in {"standard", "sandboxed"}, w \in BOOLEAN, g \in 0 .. 2, l \in {Absent, {}, {"data"}}}
      \cup {[Plain EXCEPT !.type = t, !.lease = s] :
              t \in LegacyType \cup {"command"}, s \in {0, 7200, Unbounded, NotANumber}}
      \cup UNION {{[Plain EXCEPT !.type = t, !.defects = {d}] : d \in Defects(t) \cup {"latest_image"}} :
                    t \in LegacyType \cup {"command", "training"}}
      \cup {ToJobSpec([count |-> 1, tier |-> "sandboxed", waived |-> FALSE, defects |-> {}])}

MCHosts ==
    {[node_id |-> "n", runner |-> r, healthy |-> h, claims_sandbox |-> r = "docker" /\ s, images |-> {},
      datasets |-> d, gpus |-> g, pools |-> p] :
        r \in Runner, h \in BOOLEAN, s \in BOOLEAN,
        d \in {LentDatasets(<<>>), LentDatasets(<<[label |-> "data", malformed |-> FALSE]>>),
               LentDatasets(<<[label |-> "data", malformed |-> TRUE]>>)},
        g \in {Probed(<<>>, <<>>), Probed(<<[index |-> -1]>>, <<[index |-> 0]>>)},
        p \in {{}, {"team"}}}

MCContents ==
    {[image |-> [reference |-> "image", version |-> v, wellformed |-> TRUE, namespace |-> TRUE],
      allowlisted |-> TRUE, env_ok |-> TRUE] : v \in {"tag", "none"}}

MCTasks ==
    {[kind |-> k, pool |-> p, isolation |-> i, local_inputs |-> l, gpus |-> g, exclude_nodes |-> e] :
        k \in {"argv", "module"}, p \in {Absent, Confused, "team"},
        i \in {Absent, Confused} \cup
               {[tier |-> t, waived |-> w] : t \in {Absent, "sandboxed"}, w \in BOOLEAN},
        l \in {Absent, Confused, {"data"}}, g \in {Absent, Confused, 0, 1}, e \in {Absent, Confused, {"n"}}}

MCViews ==
    {[node_id |-> "n", sandbox_capable |-> s, argv_capable |-> a, unsandboxed_argv_capable |-> u,
      module_capable |-> TRUE, local_datasets |-> d, gpus |-> g, pools |-> p] :
        s \in BOOLEAN, a \in BOOLEAN, u \in BOOLEAN, d \in {Confused, {"data"}}, g \in {Confused, 0, 1},
        p \in {Confused, {"team"}}}
      \cup {Heartbeated(NodeView(Registration(h)), p) : h \in {x \in MCHosts : Starts(x)}, p \in {Absent, {}}}

MCSignals ==
    {[Recovery!FromLocalLaunch(x, l) EXCEPT !.control_plane = c, !.concurrent = n, !.heartbeat_lost = b,
                                            !.preempted = v, !.storage_errors = e] :
        x \in {"none", "zero", "nonzero"}, l \in SUBSET {"named", "traceback", "wrapper"},
        c \in BOOLEAN, n \in 1 .. 3, b \in BOOLEAN, v \in BOOLEAN, e \in 0 .. 1}

MCMember ==
    {[kind |-> "file", name |-> m, inside |-> i, target_inside |-> TRUE, intact |-> b, size |-> s] :
        m \in {"a", "b"}, i \in BOOLEAN, b \in BOOLEAN, s \in 1 .. 2}
      \cup {[kind |-> k, name |-> m, inside |-> i, target_inside |-> t, intact |-> TRUE, size |-> 1] :
              k \in {"symlink", "dir", "device"}, m \in {"a", "b"}, i \in BOOLEAN, t \in BOOLEAN}

MCArchives == UNION {[1 .. n -> MCMember] : n \in 0 .. 3}

Machine(n, v, f, h, l, m, c) ==
    [gpus |-> n, vram |-> v, tflops |-> f, hosts |-> h, link |-> l, ram |-> m, cores |-> 8, rate |-> c]

Wanted(kind, w, r, mode, deadline, budget, quant, off) ==
    [kind |-> kind, workload |-> w, resources |-> r, mode |-> mode, deadline |-> deadline,
     budget |-> budget, allow_quantization |-> quant, allow_cpu_offload |-> off]

FineTune(tokens, method) ==
    [params |-> 7000, method |-> method, rank |-> 16, hidden |-> 4, layers |-> 32, tokens |-> tokens,
     precision |-> "bf16", optimizer |-> "adamw", grad_accum |-> 8, ackpt |-> Unset, train_tokens |-> 10]

MCRequests ==
    {Wanted("transformer_finetune", FineTune(s, m), Machine(n, v, 312, h, l, ram, 200), mode, d, b, q, o) :
        s \in {2, 8}, m \in {"full", "lora"}, n \in {1, 4}, v \in {24000, 80000}, h \in 1 .. 2,
        l \in {"same_host_pcie", "wan"}, ram \in {32000, 128000}, mode \in {"fastest", "cheapest", "reliable"},
        d \in {NoLimit, 60, 600}, b \in {NoLimit, 500}, q \in BOOLEAN, o \in BOOLEAN}
      \cup {Wanted("pytorch_training",
                   [params |-> 500, trainable |-> s, precision |-> "fp32", optimizer |-> "adamw",
                    activations |-> a, gpu_hours |-> t],
                   Machine(n, v, 0, 2, l, 32000, 200), "balanced", d, NoLimit, TRUE, TRUE) :
              s \in {5, 100}, a \in {Unset, 9000}, t \in {Unset, 10}, n \in {0, 2}, v \in {8000, 16000},
              l \in {"multi_node_ib", "wan"}, d \in {NoLimit, 400}}
      \cup {Wanted("classical_ml", [dataset |-> s, partial_fit |-> f], Machine(0, 8000, 0, 1, "wan", 8000, Unset),
                   "balanced", NoLimit, NoLimit, TRUE, TRUE) : s \in {1000, 4000}, f \in BOOLEAN}
      \cup {Wanted("independent_tasks", [count |-> 5, minutes |-> 10, needs_gpu |-> x, vram |-> v],
                   Machine(n, 16000, 0, h, "wan", 8000, Unset), "fastest", d, NoLimit, TRUE, TRUE) :
              x \in BOOLEAN, v \in {0, 20000}, n \in {0, 2}, h \in 1 .. 2, d \in {NoLimit, 20}}

MCContributions ==
    {[delta |-> d, samples |-> n] : d \in {-100, -1, 0, 2}, n \in {-99, 0, 1, 100}}
      \cup {[delta |-> 1, samples |-> NotACount], [delta |-> NotFinite, samples |-> 1],
            [delta |-> Misshapen, samples |-> 1]}
=============================================================================
