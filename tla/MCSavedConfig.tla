--------------------------- MODULE MCSavedConfig ---------------------------
(* VLANs 1 .. 5 hold a range of three and a token after it; a line holds two *)
(* tokens, so a list of three needs a second line.  VLAN 4 stands for 1002 to 1005.  *)
EXTENDS SavedConfig

MCLists == {{}, {1, 2, 3, 5}, {1, 3, 5}, {2}}
=============================================================================
