--------------------------- MODULE MCAddressFormat --------------------------
(* Instances of AddressFormat for TLC. *)
EXTENDS AddressFormat, TLC

\* A mainnet, a network, the same in capitals, and one with a zero in its name.
MCNetworks == {"mainnet", "dev", "DEV", "net0"}

MCLowerCase == [DEV |-> "dev"] @@ [n \in MCNetworks |-> n]

MCCharsOf ==
  [mainnet |-> {"letter"}, dev |-> {"letter"}, DEV |-> {"capital"}, net0 |-> {"letter", "zero"},
   bad |-> {"letter", "other"}, none |-> {}, undefined |-> {"letter"}, mn |-> {"letter"}, bc |-> {"letter"}]
  @@ [k \in Kinds |-> {"letter", "hyphen"}]

\* Segments missing, empty, too many, with other characters, of another chain.
MCForeign ==
  {<<"mn">>, <<"mn", "none">>, <<"mn", "addr", "none">>, <<"mn", "addr", "dev", "dev">>,
   <<"mn", "addr", "mainnet">>, <<"mn", "bad", "dev">>, <<"mn", "dust", "bad">>,
   <<"bc", "addr", "dev">>, <<"mn", "shield-addr", "net0">>, <<"mn", "shield-addr", "dev">>}
=============================================================================
