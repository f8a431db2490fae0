---------------------------- MODULE MCConfigCache ----------------------------
(* A small instance of ConfigCache: the route templates of one requirement *)
(* read the configuration row and the key usage row; an access key and the *)
(* model names read the configuration row only.  The run has routes and    *)
(* names, which share a load mutex.                                        *)
EXTENDS ConfigCache, TLC

CONSTANTS cfgRow, useRow, routes, key, names, routeLoadMu, accessKeyLoadMu

MCRowsOf == [i \in Item |-> IF i = routes THEN {cfgRow, useRow} ELSE {cfgRow}]
MCLockOf == [i \in Item |-> IF i = key THEN accessKeyLoadMu ELSE routeLoadMu]
=============================================================================
