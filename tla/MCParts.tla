-------------------------------- MODULE MCParts ---------------------------------
(***************************************************************************)
(* Small instances of the parts of the server that share no state, for     *)
(* one run of TLC: Init picks one of them, which takes all the steps; the  *)
(* others stay where they start.                                           *)
(***************************************************************************)
EXTENDS IndexProperties, ModelStream, Conversation, RateLimit, Projects, Paging, Accounts,
        FileProperties, OrgProperties

CONSTANTS MaxText   \* characters of a text

VARIABLE picked

partsVars == <<indexVars, streamVars, convVars, rateVars, projectVars, pagingVars, accountVars,
               filesVars, orgVars, picked>>

-----------------------------------------------------------------------------
(* Every text of up to MaxText characters that normalizeText may leave,    *)
(* some longer ones, and a document of three parts, the first one empty.   *)
Texts(n, chars) == {s \in [1..n -> chars] : IsNormal(s)}

SmallDocuments ==
  {<<t>> : t \in UNION {Texts(n, {"x", "nl", "stop", "sp"}) : n \in 0..MaxText}}
  \cup {<<t>> : t \in Texts(8, {"x", "stop"})}
  \cup {<< <<>>, t, <<"x">> >> : t \in Texts(5, {"x", "nl"})}

SmallConfigs == {<<0, 3>>, <<1, 1>>, <<2, 1>>, <<3, 2>>, <<4, 1>>, <<5, 1>>, <<5, 4>>}

(* Asked for, default and maximum.                                         *)
SmallPages == {<<0, 1, 2>>, <<3, 1, 2>>}

-----------------------------------------------------------------------------
IndexRests      == IndexStart(<<>>, <<1, 1>>, StoreDim, <<>>)
StreamRests     == StreamStart("one by one")
ProjectsRest    == ProjectStart([p \in Patches |-> [name |-> "keep", settings |-> "keep"]])
PagingRests     == PagingStart([i \in {} |-> 0], <<0, 1, 1>>)

PartsInit ==
  /\ picked \in {"index", "stream", "conversation", "rate", "projects", "paging", "accounts",
                "files", "org"}
  /\ IF picked = "index" THEN IndexInit ELSE IndexRests
  /\ IF picked = "stream" THEN StreamInit ELSE StreamRests
  /\ IF picked = "projects" THEN ProjectInit ELSE ProjectsRest
  /\ IF picked = "paging" THEN PagingInit ELSE PagingRests
  /\ ConvInit /\ RateInit /\ AccountsInit /\ FilesInit /\ OrgInit

PartsNext ==
  /\ UNCHANGED picked
  /\ IF picked = "index" THEN IndexNext ELSE UNCHANGED indexVars
  /\ IF picked = "stream" THEN StreamNext ELSE UNCHANGED streamVars
  /\ IF picked = "conversation" THEN ConvNext ELSE UNCHANGED convVars
  /\ IF picked = "rate" THEN RateNext ELSE UNCHANGED rateVars
  /\ IF picked = "projects" THEN ProjectNext ELSE UNCHANGED projectVars
  /\ IF picked = "paging" THEN PagingNext ELSE UNCHANGED pagingVars
  /\ IF picked = "accounts" THEN AccountsNext ELSE UNCHANGED accountVars
  /\ IF picked = "files" THEN FilesNext ELSE UNCHANGED filesVars
  /\ IF picked = "org" THEN OrgNext ELSE UNCHANGED orgVars

PartsSpec == PartsInit /\ [][PartsNext]_partsVars
=============================================================================
