---------------------------- MODULE MCWorldObjects ----------------------------
EXTENDS WorldObjects
CONSTANTS tent, mortar, stray, camp, truck, heli

TheDeployables == {tent, mortar, stray}
TheCasts == {{truck, heli}, {truck, tent}, {tent, mortar}, {stray, camp}}
=============================================================================
