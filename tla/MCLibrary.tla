------------------------------ MODULE MCLibrary -----------------------------
(***************************************************************************)
(* Instances of the modules about storage, text and scripts.  They share   *)
(* no variable; `part` selects the one that moves, so that their state     *)
(* spaces add up.                                                          *)
(***************************************************************************)
EXTENDS SqlDatabase, PermissionsDb, ByteStore, TextUtils, HttpHeaders, Files,
        JsRunner, JsMarshal, JsContainers, JsObjects, ScriptCalls, TLC

CONSTANT Parts

VARIABLE part

MCNames == {<<"x">>, <<"x", "[", 1, "]">>}

storageVars == <<byteVars, tx_in, httpVars, fileVars>>
jsVars == <<runnerVars, marshalVars, valueVars, containerVars, rootVars, wrapperVars, scriptVars>>
vars == <<part, sqlVars, permissionsVars, storageVars, jsVars>>

Init ==
  /\ part \in Parts
  /\ SqlInit /\ PermissionsInit /\ ByteStoreInit /\ TextInit /\ HttpInit /\ FilesInit
  /\ RunnerInit /\ MarshalInit /\ ValuesInit /\ ContainersInit /\ RootsInit
  /\ WrappersInit /\ ScriptsInit

Databases ==
  \/ part = "sql" /\ SqlNext /\ UNCHANGED permissionsVars
  \/ part = "names" /\ NamesNext /\ UNCHANGED <<sqlVars, upgradeVars, accessVars>>
  \/ part = "upgrade" /\ UpgradeNext /\ UNCHANGED sqlVars
  \/ part = "access" /\ AccessNext /\ UNCHANGED sqlVars

Storage ==
  \/ part = "bytes" /\ ByteStoreNext /\ UNCHANGED <<tx_in, httpVars, fileVars>>
  \/ part = "text" /\ TextNext /\ UNCHANGED <<byteVars, httpVars, fileVars>>
  \/ part = "http" /\ HttpNext /\ UNCHANGED <<byteVars, tx_in, fileVars>>
  \/ part = "files" /\ FilesNext /\ UNCHANGED <<byteVars, tx_in, httpVars>>

Engines ==
  \/ part = "runner" /\ RunnerNext /\ UNCHANGED <<marshalVars, valueVars, containerVars, rootVars>>
  \/ part = "marshal" /\ MarshalNext /\ UNCHANGED <<runnerVars, valueVars, containerVars, rootVars>>
  \/ part = "values" /\ ValuesNext /\ UNCHANGED <<runnerVars, marshalVars, containerVars, rootVars>>
  \/ part = "containers" /\ ContainersNext /\ UNCHANGED <<runnerVars, marshalVars, valueVars, rootVars>>
  \/ part = "roots" /\ RootsNext /\ UNCHANGED <<runnerVars, marshalVars, valueVars, containerVars>>

Bindings ==
  \/ part = "wrappers" /\ WrappersNext /\ UNCHANGED scriptVars
  \/ part = "dispatch" /\ MembersNext /\ UNCHANGED scriptVars
  \/ part = "calls" /\ CallsNext /\ UNCHANGED wrapperVars
  \/ part = "globals" /\ GlobalsNext /\ UNCHANGED wrapperVars

Next ==
  /\ UNCHANGED part
  /\ \/ Databases /\ UNCHANGED <<storageVars, jsVars>>
     \/ Storage /\ UNCHANGED <<sqlVars, permissionsVars, jsVars>>
     \/ /\ Engines
        /\ UNCHANGED <<sqlVars, permissionsVars, storageVars, wrapperVars, scriptVars>>
     \/ /\ Bindings
        /\ UNCHANGED <<sqlVars, permissionsVars, storageVars>>
        /\ UNCHANGED <<runnerVars, marshalVars, valueVars, containerVars, rootVars>>

Spec == Init /\ [][Next]_vars
=============================================================================
