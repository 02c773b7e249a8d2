------------------------------ MODULE Rendering -------------------------------
(* From a command line and a spec to the documents of a manifest: render_job_yaml*)
(* with its volumes (main.rs), render_sandbox_yaml (render_sandbox.rs) and the   *)
(* credential of the provider (llm_creds.rs).  A document is what the cluster    *)
(* and the properties tell apart of it; a Secret goes by the last part of its    *)
(* name, <run>-token, <run>-spec or <run>-llm-creds.                             *)
EXTENDS RunNames, Integers

CONSTANTS Paths,       \* mount paths that are absolute and on one line
          BadPaths,    \* the others
          NoTimeout,   \* a spec without timeout_secs
          Bits,        \* width of the integers (64)
          LastDate     \* how far from its epoch chrono can count, in seconds

ASSUME RenderingAssumption ==
  /\ Paths \cap BadPaths = {}
  /\ Bits \in Nat \ {0} /\ LastDate \in Nat /\ 2 * LastDate < 2^Bits
  /\ NoTimeout \notin Int

Keys == {"ANTHROPIC_API_KEY", "OPENAI_API_KEY"}

\* newline: in a scalar both renderers use, in --command which the Job alone uses, or in
\* none; provider "" is a spec without an llm section; keys are set in the environment.
Requests ==
  [command : {"render", "run"}, backend : {"job", "sandbox"},
   namespace : Seq(Chars), prefix : Seq(Chars), name : Seq(Chars),
   newline : {"none", "scalar", "command"},
   kvm : {"auto", "true", "false"}, mode : {"auto", "mock", "kvm", "vz"},
   strategy : {"hostPath", "emptyDir"},
   mounts : Seq([host : Paths \cup BadPaths, mode : {"ro", "rw"}]),
   timeout : 0 .. 2^Bits - 1 \cup {NoTimeout},
   provider : {"", "claude", "anthropic", "codex", "openai", "ollama", "other"},
   keys : SUBSET Keys]

-----------------------------------------------------------------------------
(* Parts of a pod.                                                             *)

\* derive_kvm_from_mode, derive_kvm_for_sandbox and --mount-kvm-override
Kvm(req) == IF req.kvm = "auto" THEN req.mode \in {"auto", "kvm"} ELSE req.kvm = "true"

HostPath(path) == [kind |-> "hostPath", of |-> path]
EmptyDir == [kind |-> "emptyDir", of |-> ""]
Volume(name, source) == [volume |-> name, source |-> source]
Mount(name, path, ro) == [volume |-> name, path |-> path, readOnly |-> ro]

KvmVolumes(req) == IF Kvm(req) THEN {Volume(<<"devkvm">>, HostPath("/dev/kvm"))} ELSE {}
KvmMounts(req) == IF Kvm(req) THEN {Mount(<<"devkvm">>, "/dev/kvm", FALSE)} ELSE {}

\* env_var_for_provider, whatever the case of the name; resolve_llm_credential: only a key
\* that is set.
Credential(req) ==
  {key \in req.keys :
     \/ req.provider \in {"claude", "anthropic"} /\ key = "ANTHROPIC_API_KEY"
     \/ req.provider \in {"codex", "openai"} /\ key = "OPENAI_API_KEY"}

\* validate_mount_host, and the same check in render_sandbox_yaml
MountsValid(req) == \A i \in DOMAIN req.mounts : req.mounts[i].host \in Paths

-----------------------------------------------------------------------------
(* The Job.                                                                    *)

\* Faulty variant: a volume is numbered from the first mount, a mount from /dev/kvm.
JobPodMisnumbered(req) ==
  [privileged |-> Kvm(req), env |-> {}, shutdown |-> NoTimeout,
   volumes |-> KvmVolumes(req) \cup
     {Volume(<<"mount", i>>, HostPath(req.mounts[i].host)) : i \in DOMAIN req.mounts},
   mounts |-> KvmMounts(req) \cup
     {Mount(<<"mount", IF Kvm(req) THEN i - 1 ELSE i>>, req.mounts[i].host,
            req.mounts[i].mode = "ro") : i \in DOMAIN req.mounts}]

\* render_volumes_for_mounts; the spec is in the command, not in a volume.
JobPod(req) ==
  [privileged |-> Kvm(req), env |-> {}, shutdown |-> NoTimeout,
   volumes |-> KvmVolumes(req) \cup
     {Volume(<<"mount", i>>, IF req.strategy = "emptyDir" THEN EmptyDir
                             ELSE HostPath(req.mounts[i].host)) : i \in DOMAIN req.mounts},
   mounts |-> KvmMounts(req) \cup
     {Mount(<<"mount", i>>, req.mounts[i].host, req.mounts[i].mode = "ro") : i \in DOMAIN req.mounts}]

JobRefused(req) == req.newline # "none" \/ ~MountsValid(req)

-----------------------------------------------------------------------------
(* The Sandbox and its Secrets.                                                *)

\* Faulty variant: cast to half the width.
HalfCast(u) == LET w == u % 2^(Bits \div 2) IN
               IF w < 2^(Bits \div 2 - 1) THEN w ELSE w - 2^(Bits \div 2)

\* u64 as i64
AsSigned(u) == IF u < 2^(Bits - 1) THEN u ELSE u - 2^Bits

Deadline(req, now) == now + AsSigned(req.timeout)

\* chrono panics beyond the dates it can represent.
Panics(req, now) ==
  req.timeout # NoTimeout /\ Deadline(req, now) \notin -LastDate .. LastDate

ShutdownTime(req, now) == IF req.timeout = NoTimeout THEN NoTimeout ELSE Deadline(req, now)

SandboxPod(req, now) ==
  [privileged |-> Kvm(req), shutdown |-> ShutdownTime(req, now),
   env |-> {[var |-> "VOIDBOX_DAEMON_TOKEN", secret |-> "token", key |-> "token"]} \cup
           {[var |-> key, secret |-> "llm-creds", key |-> key] : key \in Credential(req)},
   volumes |-> {Volume(<<"spec">>, [kind |-> "secret", of |-> "spec"])} \cup KvmVolumes(req) \cup
     {Volume(<<"mount", i>>, HostPath(req.mounts[i].host)) : i \in DOMAIN req.mounts},
   mounts |-> {Mount(<<"spec">>, "/spec", TRUE)} \cup KvmMounts(req) \cup
     {Mount(<<"mount", i>>, req.mounts[i].host, req.mounts[i].mode = "ro") : i \in DOMAIN req.mounts}]

\* Faulty variant: the credential is stored under one name whatever the provider.
SecretKeysFixed(req) ==
  [token |-> {"token"}, spec |-> {"run.yaml"},
   llmCreds |-> IF Credential(req) = {} THEN {} ELSE {"ANTHROPIC_API_KEY"}]

\* The keys in the data of each Secret; llm-creds is written if there is a credential.
SecretKeys(req) == [token |-> {"token"}, spec |-> {"run.yaml"}, llmCreds |-> Credential(req)]

SandboxRefused(req, now) == req.newline = "scalar" \/ Panics(req, now) \/ ~MountsValid(req)

-----------------------------------------------------------------------------
(* The manifest: `run` labels every document with the run id.                  *)

Refused(req, now) == IF req.backend = "job" THEN JobRefused(req) ELSE SandboxRefused(req, now)

Manifest(req, run, short, now) ==
  LET doc(kind, data) == [kind |-> kind, namespace |-> req.namespace, run |-> run, data |-> data,
                          name |-> JobName(req.prefix, req.name, short)]
      keys == SecretKeys(req)
  IN  IF req.backend = "job"
      THEN <<doc("job", JobPod(req))>>
      ELSE <<doc("sandbox", SandboxPod(req, now)), doc("token", keys.token), doc("spec", keys.spec)>>
           \o (IF keys.llmCreds = {} THEN << >> ELSE <<doc("llm-creds", keys.llmCreds)>>)
=============================================================================
