------------------------- MODULE ExporterTables -------------------------
(***************************************************************************)
(* The tables of metrics of the fifteen exporters (exporters/*.go), as     *)
(* records of MetricTable.tla, and for each list function the metrics      *)
(* whose descriptors it looks up in exporter.Metrics.  In Placement the    *)
(* guard is the presence of the descriptor itself.                         *)
(***************************************************************************)
EXTENDS TLC

\* A table without guarded, slow or deprecated metrics.
Plain(emits) ==
  [emits |-> emits, guarded |-> {}, slow |-> {}, deprecated |-> {}]

---------------------------------------------------------------------------
ListVolumes == {"volumes", "volume_gb", "volume_status_counter"}
ListSnapshots == {"snapshots"}
ListCinderAgentState == {"agent_state"}
ListVolumesStatus == {"volume_status"}
ListCinderPoolCapacityFree == {"pool_capacity_free_gb", "pool_capacity_total_gb"}
ListVolumeLimits == {"volume_type_quota_gigabytes", "limits_volume_max_gb",
                     "limits_volume_used_gb", "limits_backup_max_gb",
                     "limits_backup_used_gb"}

Cinder ==
  [emits |->
     "volumes" :> ListVolumes
     @@ "snapshots" :> ListSnapshots
     @@ "agent_state" :> ListCinderAgentState
     @@ "volume_status" :> ListVolumesStatus
     @@ "pool_capacity_free_gb" :> ListCinderPoolCapacityFree
     @@ "limits_volume_max_gb" :> ListVolumeLimits,
   guarded |-> {},
   slow |-> {"limits_volume_max_gb", "limits_volume_used_gb",
            "limits_backup_max_gb", "limits_backup_used_gb",
            "volume_type_quota_gigabytes"},
   deprecated |-> {"volume_status"}]

---------------------------------------------------------------------------
ListAllClusters == {"total_clusters", "cluster_masters", "cluster_nodes",
                    "cluster_status"}

ContainerInfra == Plain(
  "total_clusters" :> ListAllClusters)

---------------------------------------------------------------------------
ListZonesAndRecordsets ==
  {"zones", "recordsets", "recordsets_status", "zone_status"}

Designate == Plain(
  "zones" :> ListZonesAndRecordsets)

---------------------------------------------------------------------------
ListImages == {"images"}
ListImageProperties == {"image_bytes", "image_created_at"}

Glance ==
  [emits |->
     "images" :> ListImages
     @@ "image_bytes" :> ListImageProperties,
   guarded |-> {},
   slow |-> {"image_bytes", "image_created_at"},
   deprecated |-> {}]

---------------------------------------------------------------------------
getMetricStatus == {"status_metricd_processors",
                    "status_metric_having_measures_to_process",
                    "status_measures_to_process"}
ListAllMetrics == {"total_metrics"}

Gnocchi == Plain(
  "status_metricd_processors" :> getMetricStatus
  @@ "total_metrics" :> ListAllMetrics)

---------------------------------------------------------------------------
ListAllStacks == {"stack_status", "stack_status_counter"}

Heat == Plain(
  "stack_status" :> ListAllStacks)

---------------------------------------------------------------------------
ListNodes == {"node", "node_updated_at", "node_provision_updated_at"}

Ironic == Plain(
  "node" :> ListNodes)

---------------------------------------------------------------------------
ListDomains == {"domains", "domain_info"}
ListUsers == {"users"}
ListGroups == {"groups"}
ListProjects == {"projects", "project_info"}
ListRegions == {"regions"}

Keystone ==
  [emits |->
     "domains" :> ListDomains
     @@ "users" :> ListUsers
     @@ "groups" :> ListGroups
     @@ "projects" :> ListProjects
     @@ "regions" :> ListRegions,
   guarded |-> {"domain_info", "project_info"},
   slow |-> {},
   deprecated |-> {}]

---------------------------------------------------------------------------
ListAllLoadbalancers == {"total_loadbalancers", "loadbalancer_status"}
ListAllAmphorae == {"total_amphorae", "amphora_status"}
ListAllPools == {"total_pools", "pool_status"}

LoadBalancer == Plain(
  "total_loadbalancers" :> ListAllLoadbalancers
  @@ "total_amphorae" :> ListAllAmphorae
  @@ "total_pools" :> ListAllPools)

---------------------------------------------------------------------------
CountShares == {"shares_counter", "share_gb", "share_status_counter"}
ListShareStatus == {"share_status"}

Manila == Plain(
  "shares_counter" :> CountShares
  @@ "share_status" :> ListShareStatus)

---------------------------------------------------------------------------
ListFloatingIps ==
  {"floating_ip", "floating_ips", "floating_ips_associated_not_active"}
ListNetworks == {"networks", "network"}
ListSecGroups == {"security_groups"}
ListSubnets == {"subnets", "subnet"}
ListPorts == {"port", "ports", "ports_lb_not_active", "ports_no_ips"}
ListRouters == {"router", "l3_agent_of_router", "routers", "routers_not_active"}
ListVpnEndpointGroups == {"vpn_endpoint_groups"}
ListIkePolicies == {"vpn_ike_policies"}
ListIpsecPolicies == {"vpn_ipsec_policies"}
ListVpnServices == {"vpn_services", "vpn_service"}
ListVpnSiteConnections == {"vpn_siteconnections", "vpn_siteconnection"}
ListAgentStates == {"agent_state"}
ListNetworkIPAvailabilities == {"network_ip_availabilities_total", "network_ip_availabilities_used"}
ListSubnetsPerPool == {"subnets_total", "subnets_used", "subnets_free"}
ListNetworkQuotas ==
  {"quota_network", "quota_subnet", "quota_subnetpool", "quota_port",
   "quota_router", "quota_floatingip", "quota_security_group",
   "quota_security_group_rule", "quota_rbac_policy"}

Neutron ==
  [emits |->
     "floating_ips" :> ListFloatingIps
     @@ "networks" :> ListNetworks
     @@ "security_groups" :> ListSecGroups
     @@ "subnets" :> ListSubnets
     @@ "port" :> ListPorts
     @@ "routers" :> ListRouters
     @@ "vpn_endpoint_groups" :> ListVpnEndpointGroups
     @@ "vpn_ike_policies" :> ListIkePolicies
     @@ "vpn_ipsec_policies" :> ListIpsecPolicies
     @@ "vpn_services" :> ListVpnServices
     @@ "vpn_siteconnections" :> ListVpnSiteConnections
     @@ "agent_state" :> ListAgentStates
     @@ "network_ip_availabilities_total" :> ListNetworkIPAvailabilities
     @@ "subnets_total" :> ListSubnetsPerPool
     @@ "quota_network" :> ListNetworkQuotas,
   guarded |-> {"network", "subnet", "port", "router", "l3_agent_of_router",
               "vpn_service", "vpn_siteconnection"},
   slow |-> {"quota_network", "quota_subnet", "quota_subnetpool", "quota_port",
            "quota_router", "quota_floatingip", "quota_security_group",
            "quota_security_group_rule", "quota_rbac_policy"},
   deprecated |-> {}]

---------------------------------------------------------------------------
ListFlavors == {"flavors", "flavor"}
ListAZs == {"availability_zones"}
ListComputeSecGroups == {"security_groups"}
ListAllServers == {"total_vms", "running_vms", "server_status"}
ListNovaAgentState == {"agent_state"}
ListHypervisors == {"current_workload", "vcpus_available", "vcpus_used",
                    "memory_available_bytes", "memory_used_bytes",
                    "local_storage_available_bytes", "local_storage_used_bytes",
                    "free_disk_bytes"}
ListComputeLimits ==
  {"limits_vcpus_max", "limits_vcpus_used", "limits_memory_max",
   "limits_memory_used", "limits_instances_used",
   "limits_instances_max"}
ListUsage == {"server_local_gb"}
ListQuotas == {"quota_cores", "quota_instances", "quota_key_pairs",
               "quota_metadata_items", "quota_ram", "quota_server_groups",
               "quota_server_group_members", "quota_fixed_ips",
               "quota_floating_ips", "quota_security_group_rules",
               "quota_security_groups", "quota_injected_file_content_bytes",
               "quota_injected_file_path_bytes", "quota_injected_files"}

Nova ==
  [emits |->
     "flavors" :> ListFlavors
     @@ "availability_zones" :> ListAZs
     @@ "security_groups" :> ListComputeSecGroups
     @@ "total_vms" :> ListAllServers
     @@ "agent_state" :> ListNovaAgentState
     @@ "current_workload" :> ListHypervisors
     @@ "limits_vcpus_max" :> ListComputeLimits
     @@ "server_local_gb" :> ListUsage
     @@ "quota_cores" :> ListQuotas,
   guarded |-> {"running_vms", "server_status"},
   slow |-> {"limits_vcpus_max", "server_local_gb"},
   deprecated |-> {}]

---------------------------------------------------------------------------
ListContainers == {"objects", "bytes"}

ObjectStore == Plain(
  "objects" :> ListContainers)

---------------------------------------------------------------------------
ListPlacementResourceProviders ==
  {"resource_total", "resource_allocation_ratio",
   "resource_generation", "resource_reserved", "resource_usage",
   "resource_provider_allocations"}

Placement ==
  [emits |->
     "resource_total" :> ListPlacementResourceProviders,
   guarded |-> {"resource_provider_allocations"},
   slow |-> {},
   deprecated |-> {}]

---------------------------------------------------------------------------
ListAllInstances ==
  {"total_instances", "instance_status", "instance_volume_size_gb",
   "instance_volume_used_gb"}

Trove == Plain(
  "total_instances" :> ListAllInstances)

AllTables == {Cinder, ContainerInfra, Designate, Glance, Gnocchi, Heat, Ironic, Keystone,
           LoadBalancer, Manila, Neutron, Nova, ObjectStore, Placement, Trove}
=========================================================================
