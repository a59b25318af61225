---------------------------- MODULE AssetsLoader ----------------------------
(***************************************************************************)
(* The assets of the client, AssetsLoader.as: a manifest names them, then  *)
(* one file after the other is fetched.  The handler of a file does not    *)
(* know which one it is for: it stores what has come under the id at the   *)
(* current index.  The module Client extends this one.                     *)
(***************************************************************************)
EXTENDS Naturals, Sequences

CONSTANTS Manifest,  \* the ids assets.xml lists, in order
          NoAsset    \* the absence of an asset, and of a file

\* An empty manifest makes loadFile fail on _queue[0].
ASSUME AssetsAssumption ==
  /\ Manifest \in Seq({Manifest[i] : i \in DOMAIN Manifest}) /\ Manifest # <<>>
  /\ \A i, j \in DOMAIN Manifest : Manifest[i] = Manifest[j] => i = j
  /\ \A i \in DOMAIN Manifest : Manifest[i] # NoAsset

VARIABLES
  queue,   \* _queue, by the ids
  index,   \* _index, from 1
  assets,  \* _assets: what is stored under each id, named by the id it is of
  file     \* the file that is being fetched, by its id

loaderVars == <<queue, index, assets, file>>

\* load has been called, and fetches the manifest.
LoaderInit ==
  /\ queue = <<>> /\ index = 1 /\ file = NoAsset
  /\ assets = [id \in {Manifest[i] : i \in DOMAIN Manifest} |-> NoAsset]

\* The manifest has come: its items are queued, and loadFile fetches the first.
ManifestLoaded ==
  /\ queue = <<>>
  /\ queue' = Manifest
  /\ file' = Manifest[index]
  /\ UNCHANGED <<index, assets>>

\* Mutant of Remaining: the last file is forgotten.
RemainingButOne(i) == i + 1 \in DOMAIN queue

\* The test of fileLoadComplete.
Remaining(i) == i \in DOMAIN queue

\* A file has come, and the next one is fetched if there is one.
FileLoaded ==
  /\ file # NoAsset
  /\ assets' = [assets EXCEPT ![queue[index]] = file]
  /\ index' = index + 1
  /\ file' = IF Remaining(index') THEN queue[index'] ELSE NoAsset
  /\ queue' = queue

\* fileLoadComplete dispatches COMPLETE.
LoadingEnds == FileLoaded /\ ~Remaining(index')

\* Every asset is there, under its own id.
AssetsInPlace == \A id \in DOMAIN assets : assets[id] = id
=============================================================================
