---------------------------- MODULE MCCoreEditor ----------------------------
(* A small set of configurations: blank is what a new core starts with, n is *)
(* another the editor can write, raw is JSON that is read as n, and bad is   *)
(* JSON that the adapters refuse.                                            *)
EXTENDS CoreEditor

CONSTANTS blank, n, raw, bad

MCImport == [c \in {blank, n, raw, bad} |->
    CASE c = raw -> n [] c = bad -> NotImported [] OTHER -> c]

MCOthersCores ==
    {[kind |-> k, name |-> "a", tags |-> NoTags, config |-> c] :
        <<k, c>> \in {<<"xray", n>>, <<"xray", raw>>, <<"wg", bad>>}}
=============================================================================
