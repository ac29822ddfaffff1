------------------------------ MODULE Release ------------------------------
(***************************************************************************)
(* How a build reaches UAT (scripts/buildops.py).  local-verify builds an  *)
(* image, saves it as a bundle, runs it and writes the release's manifest  *)
(* and the state of the local environment; dev-promote ships a bundle that *)
(* was verified locally to dev, uat-confirm one that was verified on dev   *)
(* to UAT.  Each is a script of many commands on three hosts: it may stop  *)
(* after any of them, nothing is undone, and no lock keeps two of them     *)
(* apart.                                                                  *)
(*                                                                         *)
(* An image is named by its config digest, here the number of the build; a *)
(* bundle and its checksum by the image in it.  Readiness, secrets and the *)
(* text of a manifest are left out; a command that fails ends its script.  *)
(***************************************************************************)
EXTENDS Naturals

CONSTANTS Releases,   \* release ids: --release-id may name one again
          Operators,  \* people and jobs that run the script
          MaxBuilds,  \* bound: images that are ever built
          MaxScripts, \* bound: scripts that are ever started
          NoOne       \* no file, no image, no container

ASSUME NoOneAssumption == NoOne \notin Releases \union (0 .. MaxBuilds)
ASSUME BoundsAssumption == MaxBuilds \in Nat /\ MaxScripts \in Nat

Envs == {"local", "dev", "uat"}
Images == 1 .. MaxBuilds
Maybe(S) == S \union {NoOne}

\* What a manifest, an env-state and a container can be.
Manifests == [digest : Images, tar : Images, passed : SUBSET Envs]
States == [release : Maybe(Releases), digest : Maybe(Images), tar : Maybe(Images)]
Containers == [release : Releases, says : Maybe(Images), image : Images]

\* That there is no file is not itself a file.
ASSUME NoFileAssumption == NoOne \notin Manifests \union States \union Containers

VARIABLES
  built,     \* how many images have been built
  latest,    \* the image with the tag of the last local build
  tag,       \* the image a host's docker has under the tag of a release
  manifest,  \* releases/<id>/manifest.json
  bundle,    \* the image in a host's releases/<id>/image.tar.gz
  state,     \* env-state/<env>.json
  running,   \* the container of an environment: what it says and what it is
  op,        \* the script an operator is running
  started,   \* how many scripts have been started
  proven,    \* images that ran in an environment when it was verified
  overlapped \* releases built anew while another script worked on them

files == <<manifest, bundle, state>>
hosts == <<built, latest, tag, running>>
vars == <<files, hosts, op, started, proven, overlapped>>

\* What an operator is about: env, the environment the script ends in; digest
\* and tar, the manifest as the script has it in memory; noted, an env-state
\* that was read and is about to be written back.
Idle == [pc |-> "idle", env |-> NoOne, release |-> NoOne, digest |-> NoOne,
         tar |-> NoOne, noted |-> NoOne]

Init ==
  /\ built = 0 /\ latest = NoOne
  /\ tag = [e \in Envs |-> [r \in Releases |-> NoOne]]
  /\ manifest = [r \in Releases |-> NoOne]
  /\ bundle = [e \in Envs |-> [r \in Releases |-> NoOne]]
  /\ state = [e \in Envs |-> NoOne]
  /\ running = [e \in Envs |-> NoOne]
  /\ op = [o \in Operators |-> Idle] /\ started = 0
  /\ proven = [e \in Envs |-> {}]
  /\ overlapped = {}

\* An idle operator starts a script.
Start(o, script) ==
  /\ op[o].pc = "idle" /\ started < MaxScripts
  /\ op' = [op EXCEPT ![o] = script]
  /\ started' = started + 1

\* The script moves on, or ends.
Step(o, changes) == op' = [op EXCEPT ![o] = changes] /\ UNCHANGED started
Goto(o, label) == Step(o, [op[o] EXCEPT !.pc = label])

At(o, label, env) == op[o].pc = label /\ op[o].env = env

\* The releases somebody else has in hand, to build or to promote.
Others(o, envs) == {op[p].release : p \in {q \in Operators \ {o} : op[q].env \in envs}}

-----------------------------------------------------------------------------
(* What is checked before a script starts.                                 *)

\* classify_path and release_impact_facts: kinds are those of the changed paths.
\* With no change at all between one commit and itself there is no answer.
Impact(kinds, collapsed) ==
  CASE kinds = {} /\ collapsed                            -> "refused"
    [] "unknown" \in kinds                               -> "unknown"
    [] "app-impact" \in kinds /\ "unknown" \notin kinds -> "app-impact"
    [] OTHER                                             -> "no-app-release"

Kinds == SUBSET {"app-impact", "no-app-release", "unknown"}

\* Some change set the operator compares has this impact.
MayHaveImpact(i) == \E kinds \in Kinds, collapsed \in BOOLEAN : Impact(kinds, collapsed) = i

\* verify_release_bundle: the tar is the one the manifest names.
BundleVerified(r) == bundle["local"][r] # NoOne /\ bundle["local"][r] = manifest[r].tar

\* Wrong on purpose: only the release is compared.
StateNames(env, r) == state[env] # NoOne /\ state[env].release = r

\* verify_env_state_matches, require_verified: a state that only no-op
\* evidence has written names no release.
StateMatches(env, r) ==
  /\ state[env] # NoOne
  /\ state[env] = [release |-> r, digest |-> manifest[r].digest, tar |-> manifest[r].tar]

\* plan: what to do next about release r, whose manifest is the latest one found
\* (NoOne when there is none); noop, with --write-noop; moved, when HEAD has
\* moved on.  Without an answer about the impact the script just fails.  Which
\* manifest is found, that of LATEST or else the one written last, is left open.
Plan(impact, noop, r, moved) ==
  CASE impact = "refused"        -> "no answer"
    [] impact = "unknown"        -> "classify-release-impact"
    [] impact = "no-app-release" -> IF noop THEN "none" ELSE "noop-evidence"
    [] impact = "app-impact"     -> IF r # NoOne /\ ~moved /\ StateMatches("local", r)
                                      THEN "dev-promote-dry-run" ELSE "local-verify"

\* uat_dry_run with a manifest of a change that has an impact.
UatDryRun(r) == state["dev"] # NoOne /\ BundleVerified(r) /\ StateMatches("dev", r)

-----------------------------------------------------------------------------
(* local-verify.                                                           *)

\* deploy.sh local: the image is built, tagged as the latest one, and started.
\* It starts only with an app impact and a clean tree.
BuildImage(o, r) ==
  /\ built < MaxBuilds
  /\ MayHaveImpact("app-impact")
  /\ built' = built + 1 /\ latest' = built + 1
  /\ running' = [running EXCEPT !["local"] = [release |-> r, says |-> NoOne, image |-> built + 1]]
  /\ overlapped' = IF r \in Others(o, Envs) THEN overlapped \union {r} ELSE overlapped
  /\ Start(o, [Idle EXCEPT !.pc = "tag", !.env = "local", !.release = r])
  /\ UNCHANGED <<tag, files, proven>>

\* Wrong on purpose: the digest is read before the tag is moved.
TagImageLate(o) ==
  LET r == op[o].release  old == tag["local"][r] IN
  /\ At(o, "tag", "local")
  /\ tag' = [tag EXCEPT !["local"][r] = latest]
  /\ Step(o, [op[o] EXCEPT !.pc = "save", !.digest = IF old = NoOne THEN latest ELSE old])
  /\ UNCHANGED <<built, latest, running, files, proven, overlapped>>

\* docker tag, and the digest of what the tag names.
TagImage(o) ==
  /\ At(o, "tag", "local")
  /\ tag' = [tag EXCEPT !["local"][op[o].release] = latest]
  /\ Step(o, [op[o] EXCEPT !.pc = "save", !.digest = latest])
  /\ UNCHANGED <<built, latest, running, files, proven, overlapped>>

\* docker_save_gzip: the tar replaces that of an earlier build.
SaveBundle(o) ==
  LET r == op[o].release IN
  /\ At(o, "save", "local")
  /\ bundle' = [bundle EXCEPT !["local"][r] = tag["local"][r]]
  /\ Step(o, [op[o] EXCEPT !.pc = "deploy", !.tar = tag["local"][r]])
  /\ UNCHANGED <<manifest, state, hosts, proven, overlapped>>

\* deploy.sh --no-build: the container is started anew from the tag of the
\* release, with the digest the script knows in its environment.
StartContainer(o) ==
  LET e == op[o].env  r == op[o].release IN
  /\ op[o].pc = "deploy"
  /\ running' = [running EXCEPT ![e] =
                   [release |-> r, says |-> op[o].digest, image |-> tag[e][r]]]
  /\ Goto(o, "verify")
  /\ UNCHANGED <<built, latest, tag, files, proven, overlapped>>

\* verify_runtime_identity: what /api/version answers is what was asked for.
IdentityVerified(o) ==
  /\ running[op[o].env].release = op[o].release
  /\ running[op[o].env].says = op[o].digest

VerifyRuntime(o) ==
  LET e == op[o].env IN
  /\ op[o].pc = "verify"
  /\ IdentityVerified(o)
  /\ proven' = [proven EXCEPT ![e] = @ \union {running[e].image}]
  /\ Goto(o, "record")
  /\ UNCHANGED <<files, hosts, overlapped>>

\* Wrong on purpose: what an earlier build of the release has passed is kept.
WriteManifestOver(o) ==
  LET r == op[o].release  old == IF manifest[r] = NoOne THEN {} ELSE manifest[r].passed IN
  /\ At(o, "record", "local")
  /\ manifest' = [manifest EXCEPT ![r] =
       [digest |-> op[o].digest, tar |-> op[o].tar, passed |-> {"local"} \union old]]
  /\ Goto(o, "state")
  /\ UNCHANGED <<bundle, state, hosts, proven, overlapped>>

\* The manifest of a new build; whatever dev and UAT had verified is pending.
WriteManifest(o) ==
  LET r == op[o].release IN
  /\ At(o, "record", "local")
  /\ manifest' = [manifest EXCEPT ![r] =
       [digest |-> op[o].digest, tar |-> op[o].tar, passed |-> {"local"}]]
  /\ Goto(o, "state")
  /\ UNCHANGED <<bundle, state, hosts, proven, overlapped>>

\* write_env_state, at the end of each of the scripts.
WriteState(o) ==
  /\ op[o].pc = "state"
  /\ state' = [state EXCEPT ![op[o].env] =
       [release |-> op[o].release, digest |-> op[o].digest, tar |-> op[o].tar]]
  /\ Step(o, Idle)
  /\ UNCHANGED <<manifest, bundle, hosts, proven, overlapped>>

LocalVerify(o) ==
  \/ \E r \in Releases : BuildImage(o, r)
  \/ TagImage(o) \/ SaveBundle(o) \/ WriteManifest(o)

-----------------------------------------------------------------------------
(* dev-promote and uat-confirm.                                            *)

\* Wrong on purpose: the image is taken to be on the host.
BeginLoaded(o, env, label, r) ==
  /\ Start(o, [Idle EXCEPT !.pc = "deploy", !.env = env, !.release = r,
                          !.digest = manifest[r].digest, !.tar = manifest[r].tar])
  /\ overlapped' = IF r \in Others(o, {"local"}) THEN overlapped \union {r} ELSE overlapped
  /\ UNCHANGED <<files, hosts, proven>>

\* A script begins with the manifest in memory.
Begin(o, env, label, r) ==
  /\ Start(o, [Idle EXCEPT !.pc = label, !.env = env, !.release = r,
                          !.digest = manifest[r].digest, !.tar = manifest[r].tar])
  /\ overlapped' = IF r \in Others(o, {"local"}) THEN overlapped \union {r} ELSE overlapped
  /\ UNCHANGED <<files, hosts, proven>>

\* dev_promote: any manifest may be named, an older one too.
DevPromote(o, r) ==
  /\ manifest[r] # NoOne
  /\ MayHaveImpact("app-impact")
  /\ BundleVerified(r) /\ StateMatches("local", r)
  /\ Begin(o, "dev", "ship", r)

\* The bundle, as it is now, goes to dev.
ShipToDev(o) ==
  LET r == op[o].release IN
  /\ At(o, "ship", "dev")
  /\ bundle' = [bundle EXCEPT !["dev"][r] = bundle["local"][r]]
  /\ Goto(o, "load")
  /\ UNCHANGED <<manifest, state, hosts, proven, overlapped>>

\* uat_confirm.
UatConfirm(o, r) ==
  /\ manifest[r] # NoOne
  /\ MayHaveImpact("app-impact")
  /\ BundleVerified(r) /\ StateMatches("dev", r)
  /\ Begin(o, "uat", "check", r)

\* The bundle that lies on dev is the one of the manifest.
CheckOnDev(o) ==
  /\ At(o, "check", "uat")
  /\ bundle["dev"][op[o].release] = op[o].tar
  /\ Goto(o, "ship")
  /\ UNCHANGED <<files, hosts, proven, overlapped>>

\* It goes from dev to UAT.
ShipToUat(o) ==
  LET r == op[o].release IN
  /\ At(o, "ship", "uat")
  /\ bundle' = [bundle EXCEPT !["uat"][r] = bundle["dev"][r]]
  /\ Goto(o, "load")
  /\ UNCHANGED <<manifest, state, hosts, proven, overlapped>>

\* On either host: the checksum again, then docker load.
LoadImage(o) ==
  LET e == op[o].env  r == op[o].release IN
  /\ op[o].pc = "load"
  /\ bundle[e][r] = op[o].tar
  /\ tag' = [tag EXCEPT ![e][r] = bundle[e][r]]
  /\ Goto(o, "inspect")
  /\ UNCHANGED <<built, latest, running, files, proven, overlapped>>

\* The image under the tag is the one of the manifest.
InspectImage(o) ==
  /\ op[o].pc = "inspect"
  /\ tag[op[o].env][op[o].release] = op[o].digest
  /\ Goto(o, "deploy")
  /\ UNCHANGED <<files, hosts, proven, overlapped>>

\* update_manifest_verify reads the file again, and the script goes on with
\* what it has read.
UpdateManifest(o) ==
  LET r == op[o].release IN
  /\ op[o].pc = "record" /\ op[o].env # "local"
  /\ manifest' = [manifest EXCEPT ![r].passed = @ \union {op[o].env}]
  /\ Step(o, [op[o] EXCEPT !.pc = "state", !.digest = manifest[r].digest, !.tar = manifest[r].tar])
  /\ UNCHANGED <<bundle, state, hosts, proven, overlapped>>

Promote(o) ==
  \/ \E r \in Releases : DevPromote(o, r) \/ UatConfirm(o, r)
  \/ ShipToDev(o) \/ CheckOnDev(o) \/ ShipToUat(o)
  \/ LoadImage(o) \/ InspectImage(o) \/ UpdateManifest(o)

-----------------------------------------------------------------------------
\* What no-op evidence leaves where there was no state.
Blank == [release |-> NoOne, digest |-> NoOne, tar |-> NoOne]

\* The state as the evidence will keep it.
Noted(env) == IF state[env] = NoOne THEN Blank ELSE state[env]

\* write_noop_evidence: the state is read, completed and written back.
NoopRead(o, env) ==
  /\ MayHaveImpact("no-app-release")
  /\ Start(o, [Idle EXCEPT !.pc = "noop", !.env = env, !.noted = Noted(env)])
  /\ UNCHANGED <<files, hosts, proven, overlapped>>

NoopWrite(o) ==
  /\ op[o].pc = "noop"
  /\ state' = [state EXCEPT ![op[o].env] = op[o].noted]
  /\ Step(o, Idle)
  /\ UNCHANGED <<manifest, bundle, hosts, proven, overlapped>>

\* A command fails, a check refuses, or somebody presses the interrupt key.
Stop(o) ==
  /\ op[o].pc # "idle"
  /\ Step(o, Idle)
  /\ UNCHANGED <<files, hosts, proven, overlapped>>

Next ==
  \E o \in Operators :
    \/ LocalVerify(o) \/ Promote(o)
    \/ StartContainer(o) \/ VerifyRuntime(o) \/ WriteState(o)
    \/ \E env \in Envs : NoopRead(o, env)
    \/ NoopWrite(o) \/ Stop(o)

Spec == Init /\ [][Next]_vars

-----------------------------------------------------------------------------
Labels == {"idle", "tag", "save", "deploy", "verify", "record", "state", "ship", "load",
           "check", "inspect", "noop"}

\* Files, hosts and scripts hold what they can hold; a container runs an image.
TypeOK ==
  /\ built \in 0 .. MaxBuilds /\ latest \in Maybe(Images)
  /\ tag \in [Envs -> [Releases -> Maybe(Images)]]
  /\ manifest \in [Releases -> Maybe(Manifests)]
  /\ bundle \in [Envs -> [Releases -> Maybe(Images)]]
  /\ state \in [Envs -> Maybe(States)]
  /\ running \in [Envs -> Maybe(Containers)]
  /\ op \in [Operators -> [pc : Labels, env : Maybe(Envs), release : Maybe(Releases),
                           digest : Maybe(Images), tar : Maybe(Images), noted : Maybe(States)]]
  /\ started \in 0 .. MaxScripts
  /\ proven \in [Envs -> SUBSET Images]
  /\ overlapped \subseteq Releases

Before(env) == IF env = "uat" THEN "dev" ELSE "local"

\* No image runs on dev that did not run locally, and none on UAT that did not
\* run on dev, when that environment was verified: although scripts stop half
\* way, ids are built again, older manifests are promoted and no-op evidence is
\* written, as long as a release is not built anew while another script works
\* on it.
NothingSkipsAStage ==
  \A env \in {"dev", "uat"} :
    running[env] # NoOne /\ running[env].release \notin overlapped
      => running[env].image \in proven[Before(env)]

\* Under the same condition a container is the image it says it is.
RuntimeIsTrue ==
  \A env \in Envs :
    /\ running[env] # NoOne /\ running[env].says # NoOne
    /\ running[env].release \notin overlapped
    => running[env].image = running[env].says

\* Under the same condition the advice of plan, of the UAT dry run and of a
\* manifest's verify block is sound, whichever manifest plan finds: they speak
\* of an image that ran there.
AdviceIsSound ==
  \A r \in Releases \ overlapped : manifest[r] # NoOne =>
    /\ Plan("app-impact", FALSE, r, FALSE) = "dev-promote-dry-run"
         => manifest[r].digest \in proven["local"]
    /\ UatDryRun(r) => manifest[r].digest \in proven["dev"]
    /\ \A env \in manifest[r].passed : manifest[r].digest \in proven[env]
=============================================================================
