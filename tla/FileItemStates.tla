--------------------------- MODULE FileItemStates ---------------------------
(***************************************************************************)
(* Vocabulary of fileitem.h that every module about shared cache items     *)
(* uses: the life cycle of an item (fileitem::FiStatus), the fate of its   *)
(* data when the object dies (fileitem::EDestroyMode) and the sharing      *)
(* modes of the registry (ESharingHow).  The two enumerations are numbers  *)
(* because the code compares them with < and >=.                           *)
(***************************************************************************)
EXTENDS Integers

FIST_FRESH       == 0
FIST_INITED      == 1
FIST_DLPENDING   == 2
FIST_DLGOTHEAD   == 3
FIST_DLRECEIVING == 4
FIST_COMPLETE    == 5
FIST_DLERROR     == 6
FIST_DLSTOP      == 7

FiStatus == FIST_FRESH .. FIST_DLSTOP

KEEP             == 0
DELETE_KEEP_HEAD == 1
TRUNCATE         == 2
ABANDONED        == 3
DELETE           == 4

EDestroyMode == KEEP .. DELETE

ALWAYS_TRY_SHARING        == "always_try_sharing"
AUTO_MOVE_OUT_OF_THE_WAY  == "auto_move_out_of_the_way"
FORCE_MOVE_OUT_OF_THE_WAY == "force_move_out_of_the_way"

\* What a user of the registry asks for: job::Prepare and cacheman::Download
\* use AUTO exactly for volatile files; the maintenance tasks may use FORCE.
ESharingRequests ==
    [how : {ALWAYS_TRY_SHARING}, volatile : {FALSE}, headOnly : BOOLEAN]
    \cup [how : {AUTO_MOVE_OUT_OF_THE_WAY}, volatile : {TRUE}, headOnly : BOOLEAN]
    \cup [how : {FORCE_MOVE_OUT_OF_THE_WAY}, volatile : BOOLEAN, headOnly : {FALSE}]

\* fileitem::DlSetError keeps the smaller of the two destroy modes.
DlSetErrorDestroy(destroy, kmode) == IF kmode < destroy THEN kmode ELSE destroy
=============================================================================
