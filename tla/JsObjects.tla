------------------------------ MODULE JsObjects -----------------------------
(***************************************************************************)
(* The script objects C++ deals with: those it holds (JsRoots), and the    *)
(* modules it shows to scripts (JsWrappers).                               *)
(***************************************************************************)
EXTENDS JsRoots, JsWrappers

objectVars == <<rootVars, wrapperVars>>

ObjectsInit == RootsInit /\ WrappersInit

ObjectsNext ==
  \/ RootsNext /\ UNCHANGED wrapperVars
  \/ (WrappersNext \/ MembersNext) /\ UNCHANGED rootVars

ObjectsSpec == ObjectsInit /\ [][ObjectsNext]_objectVars

(* Script objects live as long as C++ holds them and no longer, whether by  *)
(* root or by reference, and so do the classes behind the wrapped modules   *)
(* (js_types.cc, js_runner_ff_marshaling.cc).  Two exceptions are the       *)
(* code's: a reference NPAPI forgets (NothingKeptBehind), and prototypes    *)
(* that could not be completed (ClassesOutliveAll).                         *)
ScriptObjectsLive ==
  /\ HeldIsAlive /\ NothingKeptBehind
  /\ ClassesOutlive /\ AllRecognised /\ NoRootsBehind /\ FunctionsAnswer
=============================================================================
