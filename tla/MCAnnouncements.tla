---------------------------- MODULE MCAnnouncements ----------------------------
(* Three handler threads of two networks on a board with few places.       *)
EXTENDS Announcements, TLC

MCSymmetry == Permutations(Handlers) \union Permutations(Scopes)

===============================================================================
