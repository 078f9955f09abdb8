----------------------------- MODULE MC_SfcRest -----------------------------
(***************************************************************************)
(* The seven containers of the asymmetric-chain demo and the orders in    *)
(* which the two scripts send them.                                        *)
(***************************************************************************)
EXTENDS TLC

CONSTANTS sfs, sffs, chains, paths, netvirtSfc, acl, classifier  \* the containers

\* rest.py with the ACL sent after the classifier that names it.
RestOrderAclLast == <<sfs, sffs, chains, paths, netvirtSfc, classifier, acl>>

\* rest.py lines 315-335.
RestOrder == <<sfs, sffs, chains, paths, netvirtSfc, acl, classifier>>

\* rest-clean.py lines 107-141.
RestCleanOrder == <<paths, chains, sfs, sffs, acl, classifier, netvirtSfc>>

(* The containers each payload of rest.py names.  The bridges the        *)
(* forwarders and the classifier name (sw1, sw2, sw4, sw6) are OVS        *)
(* bridges, not datastore containers.                                     *)

\* get_service_functions_data: each data-plane locator names its
\* service-function-forwarder (SFF1, SFF2).
SfsRefs == {sffs}

\* get_service_function_forwarders_data: each service-function-dictionary
\* entry names a service function and its locator.
SffsRefs == {sfs}

\* get_service_function_chains_data: the chain lists service-function
\* types, met by the service functions of those types.
ChainsRefs == {sfs}

\* get_service_function_paths_data: service-chain-name SFCNETVIRT.
PathsRefs == {chains}

\* get_ietf_acl_data: the action netvirt-sfc-acl:sfc-name SFCNETVIRT.
AclRefs == {chains}

\* get_classifier_data: acl http-acl and sff SFF1.
ClassifierRefs == {acl, sffs}

\* get_netvirt_sfc_data: a bare name.
NetvirtSfcRefs == {}
====
