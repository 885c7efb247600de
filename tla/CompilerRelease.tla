--------------------------- MODULE CompilerRelease ---------------------------
(***************************************************************************)
(* The workflow that gates and publishes the plugin compiler images, as it *)
(* is rendered from a branch's configuration by the template functions of  *)
(* src/policy/tfuncs.go (plugin-compiler-ng-build.yml).  The steps of its  *)
(* job run one after the other and the first that fails ends it.           *)
(*                                                                         *)
(* A value that is not configured is None; a list of platforms or          *)
(* architectures is a sequence.                                            *)
(***************************************************************************)
EXTENDS Naturals, Sequences, FiniteSets

CONSTANTS
    Configs,   \* configurations of the plugin compiler
    Bases,     \* sets of platforms that the source image may be published for
    None

VARIABLES
    cfg,       \* the configuration
    event,     \* "pull_request" or "push"
    source,    \* the platforms of the source image
    pc,        \* "resolve", "base", "variants", "ok" or "failed"
    base,      \* the platforms that the base of this run was built for
    vi,        \* index into the variants
    si,        \* index into the steps of the variant
    passed,    \* the gates passed: [variant, step]
    published  \* the variants pushed

vars == <<cfg, event, source, pc, base, vi, si, passed, published>>

-----------------------------------------------------------------------------
(* tfuncs.go *)

OrElse(x, default) == IF x = None THEN default ELSE x

Elements(s) == {s[i] : i \in 1 .. Len(s)}

NextGenVariants(c) == IF c.ngVariants # <<>> THEN c.ngVariants ELSE c.variants

NextGenEdition(v) ==
    IF v.edition # None THEN v.edition
    ELSE CASE v.name = "ee" -> "ee" [] v.name = "fips" -> "ee-fips" [] OTHER -> "ce"

CEArchsValue(c) == OrElse(c.ceArchs, <<"amd64", "arm64", "s390x">>)

EEArchsValue(c) == OrElse(c.eeArchs, CEArchsValue(c))

FIPSArchsValue(c) == OrElse(c.fipsArchs, EEArchsValue(c))

CrossValue(c) == OrElse(c.cross, "1")

ImagePlatformsValue(c) == OrElse(c.imagePlatforms, <<"linux/amd64">>)

GatePlatformValue(c) == OrElse(c.gatePlatform, "linux/amd64")

ImageNeedsGoTarball(c) == \E p \in Elements(ImagePlatformsValue(c)) : p # "linux/amd64"

\* Mutant: a variant without a name never matches.
GatesExtraPlatforms_NoName(c, v) ==
    c.extraGateVariant = None \/ v.name = c.extraGateVariant

\* A variant without a name is std.
GatesExtraPlatforms(c, v) ==
    c.extraGateVariant = None \/ OrElse(v.name, "std") = c.extraGateVariant

ExtraImagePlatforms(c) == Elements(ImagePlatformsValue(c)) \ {GatePlatformValue(c)}

-----------------------------------------------------------------------------
(* The job *)

Step(kind, on) == [kind |-> kind, on |-> on]

\* The steps for a variant, those included that it does not have or skips: the full gate
\* on one platform, plugins for other architectures, the toolchain on the platforms in
\* the order of the list, the push and its verification.
Steps ==
    <<Step("gate", GatePlatformValue(cfg)), Step("cross", "arm64"), Step("cross", "s390x")>>
        \o [i \in 1 .. Len(ImagePlatformsValue(cfg)) |-> Step("toolchain", ImagePlatformsValue(cfg)[i])]
        \o <<Step("push", None), Step("verify", None)>>

\* Mutant: all cross builds are those of the CE.
Runs_CrossForCE(v, s) ==
    CASE s.kind = "gate" -> TRUE
      [] s.kind = "cross" -> CrossValue(cfg) = "1" /\ NextGenEdition(v) = "ce"
      [] s.kind = "toolchain" ->
            event = "push" /\ GatesExtraPlatforms(cfg, v) /\ s.on \in ExtraImagePlatforms(cfg)
      [] OTHER -> event = "push"

\* Is the step rendered for the variant, and its `if` true?
Runs(v, s) ==
    CASE s.kind = "gate" -> TRUE
      [] s.kind = "cross" -> CrossValue(cfg) = "1" /\ (s.on = "s390x" => NextGenEdition(v) = "ce")
      [] s.kind = "toolchain" ->
            event = "push" /\ GatesExtraPlatforms(cfg, v) /\ s.on \in ExtraImagePlatforms(cfg)
      [] OTHER -> event = "push"

Init ==
    /\ cfg \in Configs /\ event \in {"pull_request", "push"} /\ source \in Bases
    /\ pc = "resolve" /\ base = {} /\ vi = 1 /\ si = 1
    /\ passed = {} /\ published = <<>>

\* Resolve source base digest: the index has to have linux/amd64, and all platforms of
\* the image if there is more than the gate's.
ResolveBase ==
    /\ pc = "resolve"
    /\ pc' = IF /\ "linux/amd64" \in source
                /\ ExtraImagePlatforms(cfg) # {} => Elements(ImagePlatformsValue(cfg)) \subseteq source
             THEN "base" ELSE "failed"
    /\ UNCHANGED <<cfg, event, source, base, vi, si, passed, published>>

\* Mutant: the two events are swapped.
BuildBase_Swapped ==
    /\ pc = "base"
    /\ base' = IF event = "push" /\ ExtraImagePlatforms(cfg) # {}
               THEN {GatePlatformValue(cfg)} ELSE Elements(ImagePlatformsValue(cfg))
    /\ pc' = IF base' \subseteq source THEN "variants" ELSE "failed"
    /\ UNCHANGED <<cfg, event, source, vi, si, passed, published>>

\* Build workflow-local NG base: for a pull request on the gate's platform.
BuildBase ==
    /\ pc = "base"
    /\ base' = IF event = "pull_request" /\ ExtraImagePlatforms(cfg) # {}
               THEN {GatePlatformValue(cfg)} ELSE Elements(ImagePlatformsValue(cfg))
    /\ pc' = IF base' \subseteq source THEN "variants" ELSE "failed"
    /\ UNCHANGED <<cfg, event, source, vi, si, passed, published>>

Variant == NextGenVariants(cfg)[vi]
Current == Steps[si]
AtStep == pc = "variants" /\ vi <= Len(NextGenVariants(cfg)) /\ si <= Len(Steps)

\* The platforms that a step builds an image for.
BuiltFor(s) ==
    CASE s.kind \in {"gate", "toolchain"} -> {s.on}
      [] s.kind = "push" -> Elements(ImagePlatformsValue(cfg))
      [] OTHER -> {}

\* A step succeeds, for which the base has to have its platforms.
RunStep ==
    /\ AtStep /\ Runs(Variant, Current)
    /\ BuiltFor(Current) \subseteq base
    /\ IF Current.kind = "push"
       THEN published' = Append(published, Variant) /\ UNCHANGED passed
       ELSE passed' = passed \union {[variant |-> Variant, step |-> Current]} /\ UNCHANGED published
    /\ si' = si + 1
    /\ UNCHANGED <<cfg, event, source, pc, base, vi>>

\* The variant does not have the step, or the event skips it.
SkipStep ==
    /\ AtStep /\ ~Runs(Variant, Current)
    /\ si' = si + 1
    /\ UNCHANGED <<cfg, event, source, pc, base, vi, passed, published>>

\* A step fails, and the job with it.
StepFails ==
    /\ AtStep /\ Runs(Variant, Current)
    /\ pc' = "failed"
    /\ UNCHANGED <<cfg, event, source, base, vi, si, passed, published>>

NextVariant ==
    /\ pc = "variants" /\ vi <= Len(NextGenVariants(cfg)) /\ si > Len(Steps)
    /\ vi' = vi + 1 /\ si' = 1
    /\ UNCHANGED <<cfg, event, source, pc, base, passed, published>>

EndJob ==
    /\ pc = "variants" /\ vi > Len(NextGenVariants(cfg))
    /\ pc' = "ok"
    /\ UNCHANGED <<cfg, event, source, base, vi, si, passed, published>>

Next == ResolveBase \/ BuildBase \/ RunStep \/ SkipStep \/ StepFails \/ NextVariant \/ EndJob

Spec == Init /\ [][Next]_vars

-----------------------------------------------------------------------------
(* Properties *)

Passed(v, kind, on) == [variant |-> v, step |-> Step(kind, on)] \in passed

\* The architectures that the variant's image cross-builds plugins for: those listed for
\* its edition, if the base has the cross toolchains (Dockerfile.base:149); amd64 is
\* what golang-cross runs on.
CrossArchs(c, v) ==
    IF CrossValue(c) # "1" THEN {}
    ELSE (CASE NextGenEdition(v) = "ee" -> Elements(EEArchsValue(c))
            [] NextGenEdition(v) = "ee-fips" -> Elements(FIPSArchsValue(c))
            [] OTHER -> Elements(CEArchsValue(c))) \ {"amd64"}

\* What is pushed has been gated: the full gate has passed on the gate's platform, and a
\* plugin was validated for every architecture that the image cross-builds for, but
\* for s390x of an edition other than the CE, which the defaults of tfuncs.go:258 to 270
\* offer and no step validates (plugin-compiler-ng-build.yml:432).
PushedIsGated ==
    \A i \in 1 .. Len(published) :
        LET v == published[i] IN
        /\ Passed(v, "gate", GatePlatformValue(cfg))
        /\ \A a \in CrossArchs(cfg, v) :
              Passed(v, "cross", a) \/ (a = "s390x" /\ NextGenEdition(v) # "ce")

\* When the job ends well, the toolchain was exercised on every platform that was
\* published beside the gate's, by all variants or by exactly one ("With
\* ExtraGateVariant set, exactly one variant does", tfuncs.go:362).
ExtraPlatformsGated ==
    pc = "ok" /\ event = "push" =>
        \A p \in ExtraImagePlatforms(cfg) :
            Cardinality({i \in 1 .. Len(NextGenVariants(cfg)) : Passed(NextGenVariants(cfg)[i], "toolchain", p)})
                = IF cfg.extraGateVariant = None THEN Len(NextGenVariants(cfg)) ELSE 1

\* No step builds an image for a platform that the base of the run was not built for,
\* on pull requests and releases alike: as long as the gate's platform is one of the
\* image's ("It must appear in ImagePlatformsValue", tfuncs.go:339), a job fails for
\* its gates and not for its own platforms; and a platform that needs the Go archive
\* has it pinned.
BaseFitsSteps ==
    AtStep /\ Runs(Variant, Current) =>
        /\ BuiltFor(Current) \subseteq base
        /\ (\E p \in BuiltFor(Current) : p # "linux/amd64") => ImageNeedsGoTarball(cfg)
=============================================================================
