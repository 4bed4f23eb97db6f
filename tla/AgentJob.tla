------------------------------ MODULE AgentJob ------------------------------
(***************************************************************************)
(* How a Task and its agent class become the pod of a Job: the backstop    *)
(* validation, the projections of Secrets, prompt and config, and the      *)
(* ConfigMaps they refer to.                                               *)
(***************************************************************************)
EXTENDS Egress

CONSTANTS
  Secrets,   \* names of Secrets
  Labels,    \* those that a prefix leaves a DNS label: no dot, and not too long
  Keys,      \* top-level fields of a config, and names of env vars
  EnvNames,  \* the keys that envNameRe matches
  Paths      \* where an agent class may mount its inputs, as directory and name

ASSUME JobAssumption ==
  /\ IsFiniteSet(Keys) /\ EnvNames \subseteq Keys /\ "" \notin Keys \cup Secrets
  /\ Labels \subseteq Secrets

PromptSources == {"inline", "secretRef", "configMapRef"}

\* json: the raw config is absent, an object, or anything else; only objects have fields.
Config ==
  {c \in [json : {"none", "object", "other"}, fields : UNION {[K -> {"scalar", "nested"}] : K \in SUBSET Keys}] :
     c.json # "object" => DOMAIN c.fields = {}}

Quantity == {"unset", "quantity", "other"}

TaskSpec ==
  [ref : BOOLEAN, timeout : Nat, prompt : SUBSET PromptSources, config : Config, cpu : Quantity,
   memory : Quantity, rbac : BOOLEAN, secrets : Seq(Secrets \cup {""}), egress : Seq(Entry),
   ports : SUBSET Nat]

\* A mount that inputs does not set.
unset == <<>>

\* configEnv: inputs.config.env, "" when it is unset.
AgentClass ==
  [promptMount : Paths \cup {unset}, configMount : Paths \cup {unset}, configEnv : Keys \cup {""},
   secrets : Seq(Secrets \cup {""}), egress : Seq(Entry)]

\* The timeout is in milliseconds.
validateTask(spec) ==
  /\ spec.timeout > 0 /\ spec.ref
  /\ Cardinality(spec.prompt) = 1
  /\ spec.cpu # "other" /\ spec.memory # "other"

-----------------------------------------------------------------------------
(* Volumes and mounts                                                      *)

\* Volumes of the pod have plain names, those of Secrets a prefix.
plain(name) == <<"", name>>

secretVolumeName(name) == <<"secret-", name>>

InlinePromptConfigMapName == "task-prompt"
AgentConfigMapName == "task-config"

scratchPath == <<"/tmp", "">>

secretPath(name) == <<"/run/secrets", name>>

Volume(name, kind, object) == [name |-> name, kind |-> kind, object |-> object]

\* A mount of one file names the key; a mount of a whole volume does not.
Mount(name, path, key) == [name |-> name, path |-> path, key |-> key]

\* slices.Sort keeps duplicates; the order of the volumes has no effect.
BuildSecretVolumes(secrets) ==
  [volumes |-> [i \in DOMAIN secrets |-> Volume(secretVolumeName(secrets[i]), "secret", secrets[i])],
   mounts  |-> [i \in DOMAIN secrets |-> Mount(secretVolumeName(secrets[i]), secretPath(secrets[i]), "")]]

NoProjection == [err |-> "none", volumes |-> <<>>, mounts |-> <<>>, env |-> <<>>]

projection(name, kind, object, path, key) ==
  [NoProjection EXCEPT !.volumes = <<Volume(plain(name), kind, object)>>,
                       !.mounts = <<Mount(plain(name), path, key)>>]

\* The source that the builder takes when there are several.
promptSource(prompt) ==
  CASE "inline" \in prompt -> "inline"
    [] "inline" \notin prompt /\ "configMapRef" \in prompt -> "configMapRef"
    [] prompt = {"secretRef"} -> "secretRef"
    [] OTHER -> "none"

\* Without a source the error is not a PermanentError.
BuildPromptProjection(spec, class) ==
  LET source == promptSource(spec.prompt)
      path == class.promptMount
  IN  CASE path = unset -> NoProjection
        [] path # unset /\ source = "inline" ->
             projection("prompt", "configMap", InlinePromptConfigMapName, path, "prompt")
        [] path # unset /\ source = "configMapRef" ->
             projection("prompt", "configMap", "referenced", path, "referenced")
        [] path # unset /\ source = "secretRef" ->
             projection("prompt", "secret", "referenced", path, "referenced")
        [] path # unset /\ source = "none" -> [NoProjection EXCEPT !.err = "plain"]

BuildInlinePromptConfigMap(spec) ==
  IF "inline" \in spec.prompt THEN {[name |-> InlinePromptConfigMapName, key |-> "prompt"]} ELSE {}

\* Variant: no file for a config that env vars carry.
BuildAgentConfigMapIfNested(spec, class) ==
  IF (\E k \in DOMAIN spec.config.fields : spec.config.fields[k] = "nested") /\ class.configMount # unset
  THEN {[name |-> AgentConfigMapName, key |-> "config.json"]} ELSE {}

BuildAgentConfigMap(spec, class) ==
  IF spec.config.json # "none" /\ class.configMount # unset
  THEN {[name |-> AgentConfigMapName, key |-> "config.json"]} ELSE {}

\* Whether scalarString and envNameRe make an env var of the field.
asEnv(config, k) == config.fields[k] = "scalar" /\ k \in EnvNames

whole == "the full JSON"

\* Variant: a field without an env form is skipped.
configErrorNever(spec, class) ==
  spec.config.json = "other" \/ class.configEnv \notin EnvNames \cup {""}

\* A config that no retry can deliver.
configError(spec, class) ==
  \/ spec.config.json = "other"
  \/ spec.config.json = "object"
     /\ \/ /\ class.configMount = unset /\ class.configEnv = ""
           /\ \E k \in DOMAIN spec.config.fields : ~asEnv(spec.config, k)
        \/ class.configEnv \notin EnvNames \cup {""}

\* The scalar fields, then the whole config, as env vars; the config as a file.
BuildConfigProjection(spec, class) ==
  LET keys == sorted({k \in DOMAIN spec.config.fields : asEnv(spec.config, k)})
      scalars == [i \in DOMAIN keys |-> [name |-> keys[i], value |-> keys[i]]]
      all == IF class.configEnv = "" THEN <<>> ELSE <<[name |-> class.configEnv, value |-> whole]>>
      file == projection("config", "configMap", AgentConfigMapName, class.configMount, "config.json")
  IN  IF spec.config.json = "none" THEN NoProjection
      ELSE IF configError(spec, class) THEN [NoProjection EXCEPT !.err = "permanent"]
      ELSE [(IF class.configMount # unset THEN file ELSE NoProjection) EXCEPT !.env = scalars \o all]

-----------------------------------------------------------------------------
\* The effective Secrets and egress of the Task.
effectiveSecrets(spec, class) == MergeStringSets("", spec.secrets, class.secrets)
effectiveEgress(spec, class) == MergeStringSets(empty, spec.egress, class.egress)

\* The first builder that fails decides.
buildJob(spec, class) ==
  LET secrets == BuildSecretVolumes(effectiveSecrets(spec, class))
      prompt == BuildPromptProjection(spec, class)
      config == BuildConfigProjection(spec, class)
      badResources == spec.cpu = "other" \/ spec.memory = "other"
  IN  [err      |-> CASE prompt.err # "none" -> prompt.err
                      [] prompt.err = "none" /\ config.err # "none" -> config.err
                      [] OTHER -> IF badResources THEN "permanent" ELSE "none",
       volumes  |-> <<Volume(plain("scratch"), "emptyDir", "")>>
                      \o secrets.volumes \o prompt.volumes \o config.volumes,
       mounts   |-> <<Mount(plain("scratch"), scratchPath, "")>> \o secrets.mounts \o prompt.mounts \o config.mounts,
       env      |-> config.env,
       token    |-> spec.rbac,
       deadline |-> spec.timeout \div 1000]

\* The API server accepts a pod whose volumes have distinct names that are DNS
\* labels, and whose mounts have their volume and a path of their own.
admitted(j) ==
  /\ \A i, k \in DOMAIN j.volumes : j.volumes[i].name = j.volumes[k].name => i = k
  /\ \A v \in Range(j.volumes) : v.name[1] = "secret-" => v.name[2] \in Labels
  /\ \A m \in Range(j.mounts) : \E v \in Range(j.volumes) : v.name = m.name
  /\ \A i, k \in DOMAIN j.mounts : j.mounts[i].path = j.mounts[k].path => i = k

=============================================================================
