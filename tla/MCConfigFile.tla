---------------------------- MODULE MCConfigFile ----------------------------
(***************************************************************************)
(* Instances of ConfigFile for TLC: files with the shape of those under    *)
(* configs/experiments, and odd ones that the parser accepts all the same. *)
(***************************************************************************)
EXTENDS ConfigFile

MCSuffix == [n \in FragmentSections |-> <<"a", "ab">>[n]]

\* "?" is what is left of a text that means nothing.
MCBeginnings ==
    [value \in Texts |-> CASE value = "ab" -> {"a"}
                          [] value \in {"", "a", "b"} -> {}
                          [] OTHER -> {"?"}]

\* Comments on top and in the body, two nodes, two paths.  The name of the
\* first fragment is a beginning of the second one's.
MCUsual ==
    <<[comment |-> 2], [comment |-> 2], [blank |-> 0],
      [section |-> Global], [pcap |-> "trace"], [sketch_kind |-> "countmin"],
      [section |-> <<"fragment", 1>>], [max_subepoch |-> <<16>>],
      [section |-> <<"fragment", 2>>], [comment |-> 1], [kind |-> "UnivMon"],
      [section |-> <<"path", 1>>], [nodes |-> <<"a", "ab">>],
      [section |-> <<"path", 2>>], [nodes |-> <<"ab">>]>>

\* Sections before [global], in any order and in parts.  Two numbers do not
\* fit into 32 bits, one is negative, one 0, one none.
MCScattered ==
    <<[section |-> <<"path", 1>>], [nodes |-> <<"ab", "a">>],
      [section |-> <<"fragment", 2>>], [max_subepoch |-> <<3>>], [comment |-> 1],
      [section |-> Global], [pcap |-> "trace"],
      [section |-> <<"fragment", 1>>], [initial_subepoch |-> <<0>>],
      [initial_subepoch |-> <<>>],
      [section |-> <<"fragment", 2>>], [initial_subepoch |-> <<UintLimit + 5>>],
      [depth |-> <<UintLimit>>], [section |-> Global], [epoch_ns |-> <<-100>>]>>

\* Two fragments of the same name, and [Global] in a spelling that the
\* runner does not look for.
MCSameName ==
    <<[ignored |-> 0], [section |-> OddGlobal], [comment |-> 2],
      [pcap |-> "trace"], [blank |-> 0],
      [section |-> <<"fragment", 1>>], [name |-> "b"],
      [section |-> <<"fragment", 2>>], [name |-> "b"],
      [boost_single_hop |-> "True"],
      [section |-> <<"path", 2>>], [nodes |-> <<"b", "b">>]>>

MCOriginals == {MCUsual, MCScattered, MCSameName}

=============================================================================
