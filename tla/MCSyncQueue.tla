----------------------------- MODULE MCSyncQueue -----------------------------
(* Small instances of SyncQueue for TLC. *)
EXTENDS SyncQueue, TLC

CONSTANTS note, flow, enum, folder, pref1, pref2    \* model values

NoRefs == [w \in Workflows |-> {}]
FlowRefs == [w \in Workflows |-> {enum}]
NoFolders == [o \in Objects |-> NoObject]
PreferenceSymmetry == Permutations(Preferences)
InNewFolder == [o \in Objects |-> IF o = note THEN folder ELSE NoObject]
==============================================================================
