--------------------------- MODULE CertificateSync ---------------------------
(***************************************************************************)
(* The plugin that keeps the certificate of a Geyser server up to date     *)
(* (FerrumCertificates.java, CertificateSync.java and InternalReload.java  *)
(* of src/FerrumGeyser): it polls the manager, writes certificate and key  *)
(* into a directory of that revision, then the configuration that names    *)
(* the directory, and has Geyser reload, which it waits for no longer than *)
(* 30 seconds.  Files are replaced by a rename; Geyser may be killed       *)
(* between any two steps.                                                  *)
(*                                                                         *)
(* auto-reload is on.  A poll of the worker that fails before it has a     *)
(* verified bundle changes nothing and is left out.  Revision 0 stands for a config.yml    *)
(* without HTTPS section, or an edited one.                                *)
(***************************************************************************)
EXTENDS Common

CONSTANTS
    MaxRevision,    \* bound: certificates the manager has, one after the other
    MaxMishaps      \* bound: failures, kills of Geyser, and files changed by hand

Revision == 1 .. MaxRevision
PemFile == {"fullchain", "privkey"}

VARIABLES
    issued,         \* the revision the manager offers
    pem,            \* the files in the directory of each revision
    geyserConfig,   \* the revision that Geyser's config.yml names
    geyser,         \* the revision Geyser runs with, whether it is initialised, our reload
    plugin,         \* where synchronize is, its bundle and the config.yml it read; its fields
    mishaps,
    overtaken       \* history: a poll shared a reload that had read an older config.yml

certificateVars == <<issued, pem, geyserConfig, geyser, plugin, mishaps, overtaken>>
outside == <<issued, mishaps>>

Fails == mishaps < MaxMishaps /\ mishaps' = mishaps + 1

Started == [loaded |-> geyserConfig, initialized |-> FALSE, reload |-> "none"]
NewPlugin == [step |-> "prepare", bundle |-> 0, current |-> 0, revision |-> None, needsApply |-> FALSE]

CertificateInit ==
    /\ issued = 1 /\ pem = [r \in Revision |-> {}] /\ geyserConfig = 0
    /\ geyser = Started /\ plugin = NewPlugin /\ mishaps = 0 /\ overtaken = FALSE

-----------------------------------------------------------------------------
(* synchronize: called by prepare, before Geyser is initialised, then by   *)
(* the worker again and again.                                             *)

\* The request, the verification, and the reading of config.yml.
Fetch ==
    /\ plugin.step = "prepare" \/ (plugin.step = "idle" /\ geyser.initialized)
    /\ plugin' = [plugin EXCEPT !.step = "fullchain", !.bundle = issued, !.current = geyserConfig]
    /\ UNCHANGED <<outside, pem, geyserConfig, geyser, overtaken>>

\* The order in which sync writes: what config.yml names is there before it.
After(step) ==
    CASE step = "fullchain" -> "privkey" [] step = "privkey" -> "config" [] step = "config" -> "apply"

\* writeIfChanged
WritePem ==
    /\ plugin.step \in PemFile
    /\ pem' = [pem EXCEPT ![plugin.bundle] = @ \cup {plugin.step}]
    /\ plugin' = [plugin EXCEPT !.step = After(@)]
    /\ UNCHANGED <<outside, geyserConfig, geyser, overtaken>>

Changed == plugin.revision \notin {None, plugin.bundle} \/ plugin.current # plugin.bundle

\* ConfigPatch.https and the end of sync.  The backup is never read, and left out.
WriteConfig ==
    /\ plugin.step = "config"
    /\ geyserConfig' = IF plugin.current # plugin.bundle THEN plugin.bundle ELSE geyserConfig
    /\ plugin' = [plugin EXCEPT !.step = After(@), !.revision = plugin.bundle,
                                !.needsApply = @ \/ Changed]
    /\ UNCHANGED <<outside, pem, geyser, overtaken>>

SyncFails ==
    /\ Fails
    /\ plugin.step \in PemFile \cup {"prepare", "config"}
    /\ plugin' = [plugin EXCEPT !.step = "idle"]
    /\ UNCHANGED <<issued, pem, geyserConfig, geyser, overtaken>>

NothingToApply ==
    /\ plugin.step = "apply" /\ ~(geyser.initialized /\ plugin.needsApply)
    /\ plugin' = [plugin EXCEPT !.step = "idle"]
    /\ UNCHANGED <<outside, pem, geyserConfig, geyser, overtaken>>

Pending == geyser.reload \in {"queued", "read"}

\* InternalReload.request: a reload that is not done is shared.
RequestReload ==
    /\ plugin.step = "apply" /\ geyser.initialized /\ plugin.needsApply
    /\ plugin' = [plugin EXCEPT !.step = "wait"]
    /\ geyser' = [geyser EXCEPT !.reload = IF Pending THEN @ ELSE "queued"]
    /\ overtaken' = (overtaken \/ (geyser.reload = "read" /\ geyser.loaded # geyserConfig))
    /\ UNCHANGED <<outside, pem, geyserConfig>>

\* Geyser is shutting down or reloading already.
ReloadRefused ==
    /\ Fails
    /\ plugin.step = "apply" /\ geyser.initialized /\ plugin.needsApply /\ ~Pending
    /\ plugin' = [plugin EXCEPT !.step = "idle"]
    /\ UNCHANGED <<issued, pem, geyserConfig, geyser, overtaken>>

NeedsApplyAfter_any(result) == FALSE
NeedsApplyAfter(result) == result = "failed"

\* get(30 seconds) returns, throws what the reload threw, or gives up.
ReloadAwaited ==
    /\ plugin.step = "wait"
    /\ \/ ~Pending /\ plugin' = [plugin EXCEPT !.step = "idle", !.needsApply = NeedsApplyAfter(geyser.reload)]
       \/ Pending /\ plugin' = [plugin EXCEPT !.step = "idle"]
    /\ UNCHANGED <<outside, pem, geyserConfig, geyser, overtaken>>

-----------------------------------------------------------------------------
(* Geyser (external), as the plugin uses it, and the rest of the world.    *)

PostInitialize ==
    /\ ~geyser.initialized /\ plugin.step = "idle"
    /\ geyser' = [geyser EXCEPT !.initialized = TRUE]
    /\ UNCHANGED <<outside, pem, geyserConfig, plugin, overtaken>>

\* The task of the scheduled thread: reloadGeyser reads config.yml, then starts everything.
ReloadStarts ==
    /\ geyser.reload = "queued"
    /\ geyser' = [geyser EXCEPT !.reload = "read", !.loaded = geyserConfig]
    /\ UNCHANGED <<outside, pem, geyserConfig, plugin, overtaken>>

ReloadEnds ==
    /\ geyser.reload = "read" /\ geyser' = [geyser EXCEPT !.reload = "done"]
    /\ UNCHANGED <<outside, pem, geyserConfig, plugin, overtaken>>

ReloadFails ==
    /\ Fails
    /\ Pending /\ geyser' = [geyser EXCEPT !.reload = "failed"]
    /\ UNCHANGED <<issued, pem, geyserConfig, plugin, overtaken>>

ConsoleReload ==
    /\ geyser.initialized /\ geyser.reload # "read"
    /\ geyser' = [geyser EXCEPT !.loaded = geyserConfig]
    /\ UNCHANGED <<outside, pem, geyserConfig, plugin, overtaken>>

Renew ==
    /\ issued < MaxRevision
    /\ issued' = issued + 1
    /\ UNCHANGED <<mishaps, pem, geyserConfig, geyser, plugin, overtaken>>

\* Geyser is killed and started again, or someone edits config.yml or deletes files (not in the
\* middle of a poll).
Mishap ==
    /\ Fails
    /\ \/ geyser' = Started /\ plugin' = NewPlugin /\ UNCHANGED <<pem, geyserConfig>>
       \/ plugin.step = "idle" /\ geyserConfig' = 0 /\ UNCHANGED <<pem, geyser, plugin>>
       \/ /\ plugin.step = "idle" /\ pem' = [r \in Revision |-> {}]
          /\ UNCHANGED <<geyserConfig, geyser, plugin>>
    /\ UNCHANGED <<issued, overtaken>>

\* One step of the plugin, and of Geyser, that goes well.
PluginStep ==
    \/ Fetch \/ WritePem \/ WriteConfig \/ NothingToApply \/ RequestReload \/ ReloadAwaited
GeyserStep == PostInitialize \/ ReloadStarts \/ ReloadEnds

CertificateNext ==
    \/ PluginStep \/ SyncFails \/ ReloadRefused
    \/ GeyserStep \/ ReloadFails \/ ConsoleReload \/ Renew \/ Mishap

\* Polls recur, and a reload that has begun ends some time: PluginStep and GeyserStep are taken
\* again and again.  What may fail does not fail for ever: failures are mishaps, of which there
\* are only so many.
CertificateSpec ==
    /\ CertificateInit /\ [][CertificateNext]_certificateVars
    /\ WF_certificateVars(PluginStep) /\ WF_certificateVars(GeyserStep)

-----------------------------------------------------------------------------
(* Properties.                                                             *)

\* When config.yml is made to name a revision, certificate and key of that revision are there:
\* Geyser, killed and started at any moment, never finds half a pair because of the plugin.
PairFirst ==
    [][geyserConfig' \notin {0, geyserConfig} => pem[geyserConfig'] = PemFile]_certificateVars

\* A certificate that was written is put to use ("Reload after initialization to apply the
\* first disk change, just as for subsequent renewals"), through failed, refused and slow
\* reloads and restarts.  It takes a reload that outlives a poll and the 30 seconds to miss
\* one: the next poll shares it although it has read the configuration before.
RenewalApplied == (geyserConfig # geyser.loaded) ~> (geyserConfig = geyser.loaded \/ overtaken)

\* Once the plugin runs, missing files come, and deleted ones come back, because every poll
\* fetches the whole bundle ("a 304 must not hide deleted local files").
FilesRestored == (plugin.step # "prepare" /\ pem[issued] # PemFile) ~> (pem[issued] = PemFile)

\* The plugin does its duty: a pair before its configuration, and in the end every renewal
\* applied and every file there.
CertificatesKept == PairFirst /\ RenewalApplied /\ FilesRestored
=============================================================================
