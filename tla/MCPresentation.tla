--------------------------- MODULE MCPresentation ----------------------------
(* Two users and two applications.  The second user's session carries a token of
   the first, which the subject check has to refuse; a restart may move the first
   user's grants to the other application, narrow them, take them away, or give the
   tokens of both users to the second. *)
EXTENDS Presentation, TLC

CONSTANTS ann, ben, shop, blog

Granting(caps, apps, valid) ==
  (ann :> [subject |-> ann, caps |-> caps, apps |-> apps, valid |-> valid])
  @@ (ben :> [subject |-> ann, caps |-> Capabilities, apps |-> {blog}, valid |-> TRUE])

ShopOnly == Granting(Capabilities, {shop}, TRUE)
SomeRegistries ==
  {ShopOnly, Granting(Capabilities, {blog}, TRUE), Granting(Capabilities, {shop}, FALSE),
   Granting({"fleet"}, {shop}, TRUE), Granting({"application", "capacity"}, {shop}, TRUE),
   Granting({"fleet"}, {}, TRUE),
   [u \in {ann, ben} |-> [subject |-> ben, caps |-> Capabilities, apps |-> {blog}, valid |-> TRUE]]}
SomeRows == {Fine, [health |-> "Degraded", sync |-> "OutOfSync"]}
=============================================================================
