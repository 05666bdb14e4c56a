----------------------------- MODULE MCControl -----------------------------
(* In either house the serial and the HTTP thread drive a curtain in        *)
(* opposite directions, and the scene for leaving meets commands of the     *)
(* other threads that reach the same rooms; in the second house the door    *)
(* switches the hall light.                                                 *)
EXTENDS Control

House       == Lights \cup {"CL_KETING1", "CL_ZHUWO"}
HouseClicks == <<{"XMKG_CI twice", "XMKG_CL_ZHUWO"},
                 {"XMKG_ZHU twice", "XMKG_CL_KETING1 twice", "door open"}>>
HouseTexts  == <<{"open CANTING", "close bedroom"},
                 {"open GUODAO", "close sheer"}>>
HouseJson   == {Ctrl("KETING", <<1, 1, 2>>)}
=============================================================================
