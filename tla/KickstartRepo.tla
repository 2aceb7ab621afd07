--------------------------- MODULE KickstartRepo ---------------------------
(***************************************************************************)
(* The conversions between the kickstart repo command and the payload's    *)
(* RepoConfigurationData (modules/payloads/kickstart).                     *)
(*                                                                         *)
(* The payload module reads the repo commands of the kickstart it is given *)
(* (convert_ks_repo_to_repo_data) and writes its configuration back into   *)
(* the kickstart it generates (convert_repo_data_to_ks_repo); that         *)
(* kickstart can drive the next installation.  The module steps through    *)
(* that cycle.  The callers are outside this source tree.                  *)
(*                                                                         *)
(* A command is reduced to the fields whose conversion does something:     *)
(* the URL options, the proxy, the cost, --noverifyssl and --sslcacert.    *)
(* The name and the package lists are copied as they are, and the client   *)
(* certificate and key are converted like --sslcacert.                     *)
(***************************************************************************)
EXTENDS Naturals

CONSTANTS
    None,          \* an option the command does not give
    Urls,          \* URL values
    Proxies,       \* proxy values
    CaCerts,       \* certificate paths
    Costs,         \* --cost values
    DefaultCost,   \* DNF_DEFAULT_REPO_COST
    MaxRounds      \* kickstarts read in a run

UrlTypes == {"BASEURL", "MIRRORLIST", "METALINK"}  \* URL_TYPE_*

\* repo commands pykickstart accepts: at most one of the URL options, the
\* others unset or empty
KsRepos ==
    LET Opt(S) == S \cup {None, ""}
        Url(k, f) == IF k = f THEN Urls ELSE {None, ""}
        WithUrl(k) == [baseurl : Url(k, "BASEURL"),
                       mirrorlist : Url(k, "MIRRORLIST"),
                       metalink : Url(k, "METALINK"),
                       proxy : Opt(Proxies), cost : Costs \cup {None},
                       noverifyssl : BOOLEAN, sslcacert : Opt(CaCerts)]
    IN  UNION {WithUrl(k) : k \in UrlTypes \cup {"NONE"}}

\* Python's truth of an optional string, and `x or y` on an optional
\* string and on an optional number: the empty string, 0 and None are false
Given(x) == x \notin {None, ""}
OrStr(x, y) == IF Given(x) THEN x ELSE y
OrNum(x, y) == IF x = None \/ x = 0 THEN y ELSE x

\* Bug variant: a command without a URL option keeps the default type.
ConvertKsRepoToRepoDataNoNone(ks) ==
    [url  |-> CASE Given(ks.baseurl)    -> ks.baseurl
                [] Given(ks.mirrorlist) -> ks.mirrorlist
                [] Given(ks.metalink)   -> ks.metalink
                [] OTHER                -> "",
     type |-> CASE Given(ks.mirrorlist) -> "MIRRORLIST"
                [] Given(ks.metalink)   -> "METALINK"
                [] OTHER                -> "BASEURL",
     proxy |-> OrStr(ks.proxy, ""),
     cost |-> OrNum(ks.cost, DefaultCost),
     ssl_verification_enabled |-> ~ks.noverifyssl,
     ca_cert_path |-> OrStr(ks.sslcacert, "")]

\* convert_ks_repo_to_repo_data
ConvertKsRepoToRepoData(ks) ==
    [url  |-> CASE Given(ks.baseurl)    -> ks.baseurl
                [] Given(ks.mirrorlist) -> ks.mirrorlist
                [] Given(ks.metalink)   -> ks.metalink
                [] OTHER                -> "",
     type |-> CASE Given(ks.baseurl)    -> "BASEURL"
                [] Given(ks.mirrorlist) -> "MIRRORLIST"
                [] Given(ks.metalink)   -> "METALINK"
                [] OTHER                -> "NONE",
     proxy |-> OrStr(ks.proxy, ""),
     cost |-> OrNum(ks.cost, DefaultCost),
     ssl_verification_enabled |-> ~ks.noverifyssl,
     ca_cert_path |-> OrStr(ks.sslcacert, "")]

\* Bug variant: --noverifyssl is written as the verification flag itself.
ConvertRepoDataToKsRepoUnnegated(d) ==
    [baseurl |-> IF d.type = "BASEURL" THEN d.url ELSE None,
     mirrorlist |-> IF d.type = "MIRRORLIST" THEN d.url ELSE None,
     metalink |-> IF d.type = "METALINK" THEN d.url ELSE None,
     proxy |-> d.proxy,
     noverifyssl |-> d.ssl_verification_enabled,
     sslcacert |-> d.ca_cert_path,
     cost |-> IF d.cost # DefaultCost THEN d.cost ELSE None]

\* convert_repo_data_to_ks_repo: a default cost is left out of the command
ConvertRepoDataToKsRepo(d) ==
    [baseurl |-> IF d.type = "BASEURL" THEN d.url ELSE None,
     mirrorlist |-> IF d.type = "MIRRORLIST" THEN d.url ELSE None,
     metalink |-> IF d.type = "METALINK" THEN d.url ELSE None,
     proxy |-> d.proxy,
     noverifyssl |-> ~d.ssl_verification_enabled,
     sslcacert |-> d.ca_cert_path,
     cost |-> IF d.cost # DefaultCost THEN d.cost ELSE None]

-----------------------------------------------------------------------------

VARIABLES
    ks,        \* the repo command of the kickstart being read
    data,      \* the payload's RepoConfigurationData, None before it is read
    firstKs,   \* history: the command the user wrote
    firstData, \* history: the configuration the first installation used
    rounds     \* kickstarts read so far

vars == <<ks, data, firstKs, firstData, rounds>>

Init ==
    /\ ks \in KsRepos
    /\ firstKs = ks
    /\ data = None
    /\ firstData = None
    /\ rounds = 0

\* process_kickstart of an installation: the command becomes its configuration
ReadKickstart ==
    /\ rounds < MaxRounds
    /\ data = None
    /\ data' = ConvertKsRepoToRepoData(ks)
    /\ firstData' = IF rounds = 0 THEN data' ELSE firstData
    /\ rounds' = rounds + 1
    /\ UNCHANGED <<ks, firstKs>>

\* setup_kickstart: the configuration is written into the generated
\* kickstart, which the next installation reads
WriteKickstart ==
    /\ data # None
    /\ ks' = ConvertRepoDataToKsRepo(data)
    /\ data' = None
    /\ UNCHANGED <<firstKs, firstData, rounds>>

Next == ReadKickstart \/ WriteKickstart

Spec == Init /\ [][Next]_vars

-----------------------------------------------------------------------------
(* Properties *)

TypeOK ==
    /\ ks \in KsRepos
    /\ rounds \in 0..MaxRounds
    /\ data # None =>
         /\ data.type \in UrlTypes \cup {"NONE"}
         /\ data.type = "NONE" <=> data.url = ""
         /\ data.cost \in Costs \cup {DefaultCost}

\* A repository configured from a kickstart is configured the same way by
\* the kickstart the installer generates from it: writing the configuration
\* out and reading it back is a fixed point.
ConfigurationReproduced ==
    data # None /\ rounds > 1 => data = firstData

\* The repository gets the cost the user's --cost gave it, and the default
\* cost only when --cost was not given.
CostHonoured ==
    data # None /\ rounds = 1 =>
      data.cost = IF firstKs.cost = None THEN DefaultCost ELSE firstKs.cost

=============================================================================
