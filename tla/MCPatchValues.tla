---------------------------- MODULE MCPatchValues ---------------------------
(***************************************************************************)
(* Instances of PatchValues for TLC: three charts with the layouts of      *)
(* RKE2 v1.35.3+rke2r3, and users who set scalars and empty maps above, at *)
(* and beside the paths the patcher writes.                                *)
(***************************************************************************)
EXTENDS PatchValues, TLC

MCKey == STRING

Layout(map, repository, tag) ==
    Append(map, "repository") :> repository @@ Append(map, "tag") :> tag

MCDefaults == [
    coredns |->
        Layout(<<"image">>, "hardened-coredns", "bundled")
        @@ Layout(<<"autoscaler", "image">>, "hardened-cluster-autoscaler", "bundledAutoscaler")
        @@ Layout(<<"nodelocal", "image">>, "hardened-dns-node-cache", "bundledCache"),
    canal |->
        Layout(<<"flannel", "image">>, "hardened-flannel", "bundledFlannel")
        @@ Layout(<<"calico", "cniImage">>, "hardened-calico", "bundled")
        @@ Layout(<<"calico", "nodeImage">>, "hardened-calico", "bundled")
        @@ Layout(<<"calico", "flexvolImage">>, "hardened-calico", "bundled")
        @@ Layout(<<"calico", "kubeControllerImage">>, "hardened-calico", "bundled"),
    ingressNginx |->
        Layout(<<"controller", "image">>, "nginx-ingress-controller", "bundled")
        @@ <<"controller", "image", "primeTag">> :> "bundledPrime"]

MCUserPaths == [
    coredns |-> {<<"image">>, <<"image", "tag">>, <<"image", "pullPolicy">>, <<"autoscaler">>,
                 <<"nodelocal", "image", "tag">>},
    canal |-> {<<"calico">>, <<"calico", "nodeImage", "tag">>, <<"calico", "nodeImage", "pullPolicy">>,
               <<"flannel", "image">>},
    ingressNginx |-> {<<"controller", "image", "tag">>, <<"controller", "image", "primeTag">>,
                      <<"controller", "replicas">>}]
=============================================================================
