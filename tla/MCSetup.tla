------------------------------- MODULE MCSetup -------------------------------
(***************************************************************************)
(* Campaigns for the model checker: a fresh set-up of every solution, and   *)
(* a second one -- on the same cluster, with another solution, another      *)
(* technology, another port mapping or no provider, or on a new cluster     *)
(* with the same cache.                                                     *)
(***************************************************************************)
EXTENDS Setup

Fresh(kind, data) ==
  [provider |-> "kind", kind |-> kind, data |-> data, existing |-> FALSE,
   ports |-> "default", wipe |-> FALSE]
Again(command) == [command EXCEPT !.existing = TRUE]
Wiped(command) == [command EXCEPT !.wipe = TRUE]
Moved(command) == [command EXCEPT !.ports = "custom"]
From(provider, command) == [command EXCEPT !.provider = provider]

Everything == {Fresh(k, <<>>) : k \in Kind}
              \cup {Fresh("native", <<t>>) : t \in Technology}
              \cup {Fresh("capsule", <<"kubeovn-subnet", "scoped-dns">>),
                    Fresh("vcluster", <<"network-policy">>),
                    Fresh("kubezoo", <<"storage-classes">>),
                    Fresh("native", <<"network-policy", "kubeovn">>),
                    Fresh("native", <<"gvisor", "kata">>)}

Campaign ==
  {<<c, Again(c)>> : c \in Everything}
  \cup {<<c, Wiped(c)>> : c \in {Fresh("native", <<"gvisor">>),
                                 Fresh("native", <<"kata">>)}}
  \cup {<<Fresh("native", <<"kata">>), Again(Fresh("native", <<"kata">>)),
          Wiped(Fresh("native", <<"kata">>))>>}
  \cup {<<Moved(c), Again(Moved(c))>> : c \in Everything}
  \cup {<<Fresh("native", <<>>), Again(c)>> :
          c \in {Fresh("native", <<"network-policy">>),
                 Fresh("native", <<"kubeovn-vpc">>), Fresh("proxy", <<>>),
                 Fresh("vcluster", <<>>), Fresh("kamaji", <<"scoped-dns">>)}}
  \cup {<<From("none", c), Again(From("none", c))>> :
          c \in {Fresh("native", <<"network-policy">>),
                 Fresh("native", <<"kata">>), Fresh("proxy", <<>>)}}
  \cup {<<c, From("none", Again(c))>> :
          c \in {Fresh("native", <<"network-policy">>), Fresh("vcluster", <<>>)}}
  \cup {<<From("k3s", Fresh("native", <<>>))>>}
=============================================================================
