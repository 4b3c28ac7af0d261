----------------------------- MODULE MCKitBatch -----------------------------
(***************************************************************************)
(* Small batches for the model checker: every sequence of configs from a   *)
(* few that differ in driver, in how they name their device, and in what   *)
(* they write.                                                             *)
(***************************************************************************)
EXTENDS KitBatch

CONSTANTS d1, d2, d3, kit, app, web, BatchSize

Conf(driver, serial, udid, capture, malformed, package, output) ==
  [driver |-> driver, serial |-> serial, udid |-> udid, capture |-> capture,
   malformed |-> malformed, package |-> package, output |-> output]

Kit == <<<<kit>>>>
KitApp == <<<<kit>>, <<app>>>>

\* The one Android device by adb and by Appium, two simulators; outputs that
\* clash, and one that is where another would be moved.
NamedConfigs ==
  {Conf("adb", d1, None, TRUE, FALSE, <<app>>, Kit),
   Conf("appium", None, d1, TRUE, FALSE, <<app>>, Kit),
   Conf("ios", None, d2, TRUE, FALSE, <<web>>, Kit),
   Conf("ios", None, d3, FALSE, TRUE, <<app>>, KitApp)}

UnnamedConfigs ==
  {Conf("adb", None, None, TRUE, FALSE, <<app>>, Kit),
   Conf("appium", None, None, FALSE, FALSE, <<app>>, Kit)}

BatchesOf(S) == UNION {[1..n -> S] : n \in 1..BatchSize}
AnyBatch == BatchesOf(NamedConfigs \cup UnnamedConfigs)

\* What OutputsApart needs of them.
ASSUME BatchesArePlain == PlainNames
=============================================================================
