------------------------------ MODULE Programs ------------------------------
(***************************************************************************)
(* What the programs of demo/ and test/linux ask of the library, in their  *)
(* order.  A demo is a function erob_test of nine steps: X_find is steps 1 *)
(* and 2, X_maps the PDOs of step 3, X_run the steps 4 to 9, and X_pdo the *)
(* layout of the structs rxpdo_t and txpdo_t, which are copied to and from *)
(* the image: lengths of their fields in bits.                             *)
(*                                                                         *)
(*   config_init   ec_config_init        preop_each  PRE_OP, slave by slave*)
(*   pdos          PDOs by SDO           assign      other PDOs by SDO     *)
(*   manual        manualstatechange = 1 config_map  ec_config_map         *)
(*   in_preop      all in PRE_OP?        dcsync0     ecx_dcsync0, all      *)
(*   configdc      ec_configdc           safeop, op  asked for and awaited *)
(*   control       ecatthread            watch       cyclic loop, inOP set *)
(*   tool          module EepromTool                                       *)
(***************************************************************************)
LOCAL INSTANCE Sequences

\* the part of step 4 and 5 most demos have: SYNC0 is started before the clocks
\* have their offsets
Sync0First ==
  <<"pdos", "manual", "dcsync0", "config_map", "in_preop", "configdc", "safeop", "op", "control">>

CSP_find == <<"config_init", "preop_each">>
CSP_maps == [rx |-> <<16, 32, 8, 8>>, tx |-> <<16, 32, 32, 16>>]
CSP_pdo  == [rx |-> <<16, 32, 8, 8>>, tx |-> <<16, 32, 32, 16>>]

CSP_run  ==
  <<"pdos", "manual", "config_map", "in_preop", "configdc", "dcsync0", "safeop", "op", "control">>

SUB_find == <<"config_init", "preop_each">>
SUB_maps == [rx |-> <<16, 32, 8, 8>>, tx |-> <<16, 32, 32, 16>>]
SUB_pdo  == [rx |-> <<16, 32, 8, 8>>, tx |-> <<16, 32, 32, 16>>]
SUB_run  == Sync0First

TC_find == <<"config_init", "preop_each">>
TC_maps == [rx |-> <<16, 32, 8, 8>>, tx |-> <<16, 32, 32, 16>>]
TC_pdo  == [rx |-> <<16, 32, 8, 8>>, tx |-> <<16, 32, 32, 16>>]
TC_run  == Sync0First

PP_find == <<"config_init", "preop_each">>
PP_maps == [rx |-> <<16, 32, 8, 8>>, tx |-> <<16, 32, 32, 16>>]
PP_pdo  == [rx |-> <<16, 32, 8, 8>>, tx |-> <<16, 32, 32, 16>>]
PP_run  == Sync0First

CST_find == <<"config_init", "preop_each">>
CST_maps == [rx |-> <<16, 16, 8, 8>>, tx |-> <<16, 32, 32, 16>>]
CST_pdo  == [rx |-> <<16, 16, 8, 8>>, tx |-> <<16, 32, 32, 16>>]
CST_run  == Sync0First

PT_find == <<"config_init", "preop_each">>

\* variant: the padding byte is not mapped
PT_mapsUnpadded == [rx |-> <<16, 16, 32, 16, 8>>, tx |-> <<16, 32, 32, 16>>]

PT_maps == [rx |-> <<16, 16, 32, 16, 8, 8>>, tx |-> <<16, 32, 32, 16>>]
PT_pdo  == [rx |-> <<16, 16, 32, 16, 8, 8>>, tx |-> <<16, 32, 32, 16>>]
PT_run  == Sync0First

PV_find == <<"config_init", "preop_each">>
PV_maps == [rx |-> <<16, 32, 8, 8>>, tx |-> <<16, 32, 32, 16>>]
PV_pdo  == [rx |-> <<16, 32, 8, 8>>, tx |-> <<16, 32, 32, 16>>]
PV_run  == Sync0First

CSV_find == <<"config_init", "preop_each">>
CSV_maps == [rx |-> <<16, 32, 8, 8>>, tx |-> <<16, 32, 32, 16>>]
CSV_run  ==
  <<"pdos", "manual", "config_map", "in_preop", "configdc", "dcsync0", "safeop", "op", "control">>

-----------------------------------------------------------------------------
\* test/linux/simple_test/eRob_test.cpp: clocks only in SAFE_OP
erob_find == <<"config_init", "preop_each">>
erob_run  == <<"assign", "manual", "dcsync0", "config_map", "safeop", "configdc", "op">>

\* before ec_config there are no slaves, so that the first ecx_dcsync0 does nothing
redtest    == <<"config_init", "config_map", "dcsync0", "configdc", "op", "watch">>
simpletest == <<"config_init", "preop_all", "dcsync0", "config_map", "op", "watch">>
eoetest    == <<"config_init", "config_map", "configdc", "op", "watch">>
slaveinfo  == <<"config_init", "config_map", "configdc">>
eepromtool_calls == <<"tool">>

-----------------------------------------------------------------------------
NoMaps == [rx |-> <<>>, tx |-> <<>>]

Demo(find, run, maps, pdo) == [script |-> find \o run, maps |-> maps, pdo |-> pdo]
Test(script)               == [script |-> script, maps |-> NoMaps, pdo |-> NoMaps]

Programs ==
  [csp |-> Demo(CSP_find, CSP_run, CSP_maps, CSP_pdo),
   csp_subscriber |-> Demo(SUB_find, SUB_run, SUB_maps, SUB_pdo),
   tc  |-> Demo(TC_find, TC_run, TC_maps, TC_pdo),
   pp  |-> Demo(PP_find, PP_run, PP_maps, PP_pdo),
   cst |-> Demo(CST_find, CST_run, CST_maps, CST_pdo),
   pt  |-> Demo(PT_find, PT_run, PT_maps, PT_pdo),
   pv  |-> Demo(PV_find, PV_run, PV_maps, PV_pdo),
   csv |-> Demo(CSV_find, CSV_run, CSV_maps, PV_pdo),
   erob_test |-> Test(erob_find \o erob_run),
   red_test |-> Test(redtest), simple_test |-> Test(simpletest), eoe_test |-> Test(eoetest),
   slaveinfo |-> Test(slaveinfo), eepromtool |-> Test(eepromtool_calls)]
=============================================================================
