---------------------------- MODULE PodTemplate ----------------------------
(***************************************************************************)
(* The volumes of the collector's pods (handleVolumes and                  *)
(* setOtelCommonFieldsDefaults in pkg/resources/manager/                   *)
(* collector_manager.go), which have to bring in every directory that the  *)
(* generated configuration writes to.                                      *)
(*                                                                         *)
(* A path is a sequence of segments, and a segment the sequence of words   *)
(* between its dashes: /data/app-A is <<<<"data">>, <<"app", "A">>>>. The   *)
(* volumes and mounts of a pod template are sets of [name, path]; the path *)
(* of a volume is its hostPath. The order they are listed in is left out.  *)
(***************************************************************************)
EXTENDS Naturals, Sequences

CONSTANTS
    Lower,        \* Lower[w]: a word of a path in lower case
    NoDirectory   \* persistenceConfig.directory is not given

Seqs == INSTANCE SequencesExt

-----------------------------------------------------------------------------
(* Paths and names *)

\* filepath.Dir of the path of a file.
Dir(path) == Seqs!Front(path)

\* Slashes become dashes, and all is in lower case.
SanitizePathForVolumeName(path) ==
    LET words == Seqs!FlattenSeq(path)
    IN  [i \in DOMAIN words |-> Lower[words[i]]]

DefaultFileStorageDirectory == <<<<"var">>, <<"lib">>, <<"otelcol">>, <<"file_storage">>>>
DetermineFileStorageDirectory(dir, t) ==
    IF dir # NoDirectory THEN dir ELSE Append(DefaultFileStorageDirectory, <<t>>)

\* Mutant: the volumes of all tenants have one name.
SharedBufferVolume(t, dir) == [name |-> <<"buffervolume">>, path |-> DetermineFileStorageDirectory(dir, t)]

BufferVolume(t, dir) == [name |-> <<"buffervolume", t>>, path |-> DetermineFileStorageDirectory(dir, t)]
FileExporterVolume(file) ==
    [name |-> <<"file-exporter", SanitizePathForVolumeName(Dir(file))>>, path |-> Dir(file)]
LogVolumes ==
    <<{[name |-> <<"varlog">>, path |-> <<<<"var">>, <<"log">>>>]},
      {[name |-> <<"varlibdockercontainers">>, path |-> <<<<"var">>, <<"lib">>, <<"docker">>, <<"containers">>>>]}>>

-----------------------------------------------------------------------------
(* Volumes *)

VolumeExists(pod, name) == \E v \in pod.volumes : v.name = name

\* The volumes asked for are gone through in their order, each position holding
\* one or none. A volume is added and mounted unless there is one of its name,
\* so the first of a name is. (The paths appendFileExporterVolume has processed
\* are those whose volume exists.)
NewVolumes(pod, asked) ==
    UNION {{v \in asked[i] : /\ ~VolumeExists(pod, v.name)
                             /\ \A j \in 1 .. (i - 1) : \A w \in asked[j] : w.name # v.name} :
            i \in DOMAIN asked}
AddVolumes(pod, asked) ==
    [volumes |-> pod.volumes \cup NewVolumes(pod, asked), mounts |-> pod.mounts \cup NewVolumes(pod, asked)]

\* handleVolumes: the buffers of the tenants with persistence, then the
\* directories of the file exporters. What it mounts the init container mounts
\* too, and opens for writing. `buffers' has for each tenant, and `files' for
\* each output, the volume it takes, if it takes one.
HandleVolumes(pod, buffers, files) == AddVolumes(AddVolumes(pod, buffers), files)

\* The pod template: what the user gave, what handleVolumes adds outside of
\* dry-run mode, and the directories of the container logs.
Pod(given, dryRun, buffers, files) ==
    LET handled == IF dryRun THEN given ELSE HandleVolumes(given, buffers, files)
        complete == AddVolumes(handled, LogVolumes)
    IN  [volumes |-> complete.volumes, mounts |-> complete.mounts, init |-> handled.volumes \ given.volumes]

-----------------------------------------------------------------------------
(* What the pods need *)

\* The directory is the host's, mounted at its own path, and open for writing.
Writable(pod, path) == \E v \in pod.init \cap pod.mounts \cap pod.volumes : v.path = path

\* Kubernetes refuses a pod with two volumes of one name or two mounts at one
\* path.
Admissible(pod) ==
    /\ \A v, w \in pod.volumes : v.name = w.name => v = w
    /\ \A v, w \in pod.mounts : v.path = w.path => v = w
=============================================================================
